---- MODULE Spec2Model ----
(***************************************************************************)
(* A model of the school scraper (src/scraper.py).                         *)
(*                                                                         *)
(* Part 1: the Record Merger (normalize_school_name, merge_school_data).   *)
(*   Display names are sequences of characters; the three characters of    *)
(*   the county literal are "hua", "lian", "xian"; "a", "s", "t" stand for *)
(*   ordinary characters. An Optional[int] is <<>> (None) or <<n>>.        *)
(* Part 2: the Detail Extractor (get_school_detail) and the per-entity     *)
(*   loop of parse_school_data_with_details, over an abstract browser.     *)
(* Part 3: the full batch (get_all_schools) as run by the application      *)
(*   (src/app.py: run_scrape_task and the scrape job of the scheduler).    *)
(* Part 4: the parsers (parse_number, parse_school_data, the table         *)
(*   strategy of get_school_detail) as functions of their input. A text   *)
(*   is a sequence of characters; a keyword of the source (學生, 數, ...)  *)
(*   is one character, written with a Latin name.                          *)
(* Part 5: the schools table of the storage layer (src/database.py:        *)
(*   save_school, save_schools and the upsert statement).                  *)
(* Part 6: the worker processes that import the application and run        *)
(*   init_scheduler (src/app.py), over one lock file.                      *)
(* Part 7: the navigators (query_schools, query_all_schools_in_county) as   *)
(*   sequences of steps over the entry page, up to the returned list.      *)
(* Part 8: the threads of one process that run run_scrape_task.            *)
(***************************************************************************)
EXTENDS Integers, Sequences, FiniteSets, TLC

VARIABLES
    pc,              \* position of the merge experiment
    schools,         \* the list handed to merge_school_data
    merged_schools,  \* merge_school_data(schools)
    merged_swapped,  \* merge_school_data(schools reversed)
    remerged,        \* merge_school_data(merged_schools)
    \* -- parse_school_data_with_details and get_school_detail --
    idx,             \* index i of the entity the loop is at (1-based)
    listing,         \* what parse_school_data gave: per entity, present or not, and its fields
    detail_schools,  \* the list `schools` of parse_school_data_with_details
    dpc,             \* position inside the loop body / get_school_detail
    pages,           \* the open views other than self.page, oldest first
    front,           \* the view in front: 0 is self.page
    url,             \* the URL of self.page (0 is the listing URL)
    original_url,    \* original_url of get_school_detail
    detail_page,     \* detail_page of get_school_detail: <<>> is None, <<0>> is self.page
    detail_data,     \* detail_data of get_school_detail
    overview_button, \* whether a selector located the overview button
    opened,          \* history: a view was opened during this call
    navigated,       \* history: the URL of self.page changed during this call
    extracted,       \* history: the extraction strategies of this call have run
    exit,            \* history: the exit path this call took
    failed,          \* history: entities whose call raised before extraction finished
    attempted,       \* history: entities get_school_detail was called for
    \* -- get_all_schools, run_scrape_task and the scrape job --
    bpc,             \* position of the application / of get_all_schools
    caller,          \* who runs the batch: "startup", "timer", "refresh" or "test"
    all_schools,     \* all_schools of get_all_schools
    district_i,      \* index of the sub-region the loop of get_all_schools is at
    batch_result,    \* what get_all_schools returned
    scrape_log,      \* the status column of the rows of scrape_log, oldest first
    scrape_job,      \* whether job 'scrape_job' is pending in the scheduler
    runs,            \* number of batches started
    sink_calls,      \* number of times a caller-supplied sink was invoked
    loop_ran,        \* history: the per-sub-region loop ran in this batch
    queried,         \* history: sub-regions query_schools was called for in this batch
    got,             \* history: what query_schools returned, per sub-region
    reached,         \* history: some query of this batch reached the entry page
    \* -- the parsers --
    ppc,             \* which parser is applied, and whether it has been
    parse_in,        \* the input of the parser
    parse_out,       \* what the parser returned
    \* -- the schools table --
    db_rows,         \* the rows of table schools, in insertion order
    db_op,           \* the last call: "none", "save_school" or "save_schools"
    db_call,         \* the records handed to the last call
    db_before,       \* the rows of the table when the last call started
    db_stored,       \* number of records of the last call whose upsert was committed
    db_returned,     \* what the last call returned (True is 1, False is 0)
    \* -- the worker processes and the lock file --
    writable,        \* whether the lock file can be opened for writing
    has_fcntl,       \* whether module fcntl can be imported
    lock_inode,      \* the file at the lock path: 0 is none, else the process that created it
    wpc,             \* position of each process
    fd,              \* the file each process has open as _scheduler_lock_file: 0 is None
    lock_held,       \* the processes that hold the lock of the file they have open
    running,         \* scheduler.running of each process
    cleanup,         \* whether each process registered cleanup
    startup_checked, \* history: the process ran check_and_scrape_on_startup
    \* -- the navigators --
    npc,             \* the step the navigation is at
    navigator,       \* the navigator whose body runs: "query_schools" or "county"
    nav_entry,       \* the navigator that was called
    nav_district,    \* the district argument of the call: <<>> for the county-wide call
    succeeded,       \* history: the steps of this navigation that took effect
    skipped,         \* history: the steps that failed and were passed over
    unaided,         \* history: the steps that failed without a fallback being tried
    submitted,       \* history: the submit action was issued
    shown,           \* the entities the result page shows
    nav_details,     \* what parse_school_data_with_details returned
    nav_result,      \* what the navigator returned
    \* -- the scrape tasks of one process --
    tpc,             \* position of the application: "import", "startup" or "serving"
    task,            \* position of run_scrape_task in each thread
    job_pending      \* whether job 'scrape_job' is pending in the scheduler

mergeVars == <<pc, schools, merged_schools, merged_swapped, remerged>>

detailVars == <<idx, listing, detail_schools, dpc, pages, front, url, original_url,
                detail_page, detail_data, overview_button, opened, navigated,
                extracted, exit, failed, attempted>>

batchVars == <<bpc, caller, all_schools, district_i, batch_result, scrape_log, scrape_job,
               runs, sink_calls, loop_ran, queried, got, reached>>

parseVars == <<ppc, parse_in, parse_out>>

dbVars == <<db_rows, db_op, db_call, db_before, db_stored, db_returned>>

workerVars == <<writable, has_fcntl, lock_inode, wpc, fd, lock_held, running, cleanup,
                startup_checked>>

navVars == <<npc, navigator, nav_entry, nav_district, succeeded, skipped, unaided,
             submitted, shown, nav_details, nav_result>>

taskVars == <<tpc, task, job_pending>>

vars == <<mergeVars, detailVars, batchVars, parseVars, dbVars, workerVars, navVars,
          taskVars>>

\* what the actions of one part leave alone
notMerge == <<detailVars, batchVars, parseVars, dbVars, workerVars, navVars, taskVars>>

notDetail == <<mergeVars, batchVars, parseVars, dbVars, workerVars, navVars, taskVars>>

notBatch == <<mergeVars, detailVars, parseVars, dbVars, workerVars, navVars, taskVars>>

notParse == <<mergeVars, detailVars, batchVars, dbVars, workerVars, navVars, taskVars>>

notDb == <<mergeVars, detailVars, batchVars, parseVars, workerVars, navVars, taskVars>>

notWorker == <<mergeVars, detailVars, batchVars, parseVars, dbVars, navVars, taskVars>>

notNav == <<mergeVars, detailVars, batchVars, parseVars, dbVars, workerVars, taskVars>>

notTasks == <<mergeVars, detailVars, batchVars, parseVars, dbVars, workerVars, navVars>>

(***************************************************************************)
(* Bounds of the input space.                                              *)
(***************************************************************************)
MaxSuffix == 2    \* a display name carries the region suffix 0..MaxSuffix times
MaxNum == 1       \* known numeric values are 0..MaxNum
MaxKnown == 2     \* an input record of the field sweep has at most MaxKnown known fields
MaxEntities == 2  \* entities the loop of parse_school_data_with_details goes through
MaxViews == 2     \* views that can be open besides self.page
MaxUrl == 2       \* URLs self.page can be taken to besides the listing URL
MaxDistricts == 2 \* length of the list `districts` of get_all_schools (13 in the source)
MaxRuns == 2      \* batches the application starts
MaxText == 3      \* length of the texts handed to parse_number
MaxWorkers == 2   \* worker processes that import the application

(***************************************************************************)
(* Text helpers.                                                           *)
(***************************************************************************)
County == <<"hua", "lian", "xian">>

IsSpace(c) == c \in {" ", "\n"}

RECURSIVE LStrip(_)
LStrip(s) == IF s # <<>> /\ IsSpace(Head(s)) THEN LStrip(Tail(s)) ELSE s

RECURSIVE RStrip(_)
RStrip(s) == IF s # <<>> /\ IsSpace(s[Len(s)]) THEN RStrip(SubSeq(s, 1, Len(s) - 1)) ELSE s

strip(s) == RStrip(LStrip(s))

\* s[i+1..] matches  \s+花蓮縣[^\[]+\[[^\]]+\]$   ($ also matches before a final newline)
SuffixMatch(s, i) ==
    LET n == Len(s) IN
    \E j \in (i + 1)..n :
        /\ \A p \in (i + 1)..j : IsSpace(s[p])
        /\ j + 3 <= n
        /\ SubSeq(s, j + 1, j + 3) = County
        /\ \E k \in (j + 5)..n :
              /\ \A p \in (j + 4)..(k - 1) : s[p] # "["
              /\ s[k] = "["
              /\ \E e \in {n - 1, n} :
                    /\ e >= k + 2
                    /\ e = n - 1 => s[n] = "\n"
                    /\ s[e] = "]"
                    /\ \A p \in (k + 1)..(e - 1) : s[p] # "]"

\* the ends of group 1 for which the whole pattern matches: (.+?) is one or more
\* characters other than a newline
MatchEnds(s) ==
    {i \in 1..Len(s) : (\A p \in 1..i : s[p] # "\n") /\ SuffixMatch(s, i)}

SetMin(S) == CHOOSE x \in S : \A y \in S : x <= y

normalize_school_name(school_name) ==
    IF school_name = <<>> THEN <<>>
    ELSE IF MatchEnds(school_name) # {}
         THEN strip(SubSeq(school_name, 1, SetMin(MatchEnds(school_name))))
         ELSE strip(school_name)

(***************************************************************************)
(* Records and the merge.                                                  *)
(***************************************************************************)
None == <<>>

Fields == {"class_count", "student_count", "teacher_count", "land_area", "building_area"}

\* Python truthiness of an Optional[int]: None and 0 are false
Truthy(v) == v # None /\ v # <<0>>

has_data(school) == \E f \in Fields : Truthy(school.num[f])

merge_fields_keep_existing(existing_school, school) == existing_school.num

\* lines 1970-1972: a field of the existing record is filled only when it is None
merge_fields(existing_school, school) ==
    [f \in Fields |->
        IF existing_school.num[f] = None /\ school.num[f] # None
        THEN school.num[f]
        ELSE existing_school.num[f]]

HasKey(merged, key) == \E i \in 1..Len(merged) : merged[i].name = key

KeyIndex(merged, key) == CHOOSE i \in 1..Len(merged) : merged[i].name = key

\* one iteration of the loop of merge_school_data; merged is the dict
\* merged_schools as the list of its values in insertion order (the key of a
\* value is its name)
merge_step(merged, school) ==
    IF school.name = <<>> THEN merged
    ELSE
      LET normalized_name == normalize_school_name(school.name)
          renamed == [school EXCEPT !.name = normalized_name]
      IN
      IF HasKey(merged, normalized_name) THEN
        LET i == KeyIndex(merged, normalized_name)
            existing_school == merged[i]
            existing_has_data == has_data(existing_school)
            current_has_data == has_data(school)
        IN
        IF current_has_data /\ ~existing_has_data THEN
            [merged EXCEPT ![i] = renamed]
        ELSE IF current_has_data /\ existing_has_data THEN
            [merged EXCEPT ![i] =
                [existing_school EXCEPT !.num = merge_fields(existing_school, school)]]
        ELSE IF ~current_has_data /\ existing_has_data THEN
            merged
        ELSE
            IF Len(school.name) > Len(existing_school.name)
            THEN [merged EXCEPT ![i] = renamed]
            ELSE merged
      ELSE Append(merged, renamed)

RECURSIVE merge_from(_, _)
merge_from(merged, list) ==
    IF list = <<>> THEN merged
    ELSE merge_from(merge_step(merged, Head(list)), Tail(list))

MergeAll(list) == merge_from(<<>>, list)

Reverse(list) == [i \in 1..Len(list) |-> list[Len(list) + 1 - i]]

(***************************************************************************)
(* Inputs of the merge experiment.                                         *)
(***************************************************************************)
Suffix == <<" ">> \o County \o <<"s", "[", "t", "]">>

RECURSIVE Rep(_)
Rep(k) == IF k = 0 THEN <<>> ELSE Suffix \o Rep(k - 1)

Cores == {<<>>, <<"a">>, <<" ">>}

\* a longer suffix of the same form
LongSuffix == <<" ">> \o County \o <<"s", "s", "[", "t", "]">>

Names == {c \o Rep(k) : c \in Cores, k \in 0..MaxSuffix} \cup {<<"a">> \o LongSuffix}

Districts == {"d1", "d2"}

Opt == {None} \cup {<<n>> : n \in 0..MaxNum}

NoData == [f \in Fields |-> None]

OneData == [NoData EXCEPT !["class_count"] = <<1>>]

Vecs == {v \in [Fields -> Opt] : Cardinality({f \in Fields : v[f] # None}) <= MaxKnown}

\* the name sweep: every name, every district, without and with data
NameRecords == [name : Names, district : Districts, num : {NoData, OneData}]

\* the field sweep: one name, every vector of numeric fields
FieldRecords == [name : {<<"a">>}, district : {"d1"}, num : Vecs]

Records == NameRecords \cup FieldRecords

\* no navigation called
NavIdle ==
    /\ npc = "off"
    /\ navigator = "off"
    /\ nav_entry = "off"
    /\ nav_district = <<>>
    /\ succeeded = {}
    /\ skipped = {}
    /\ unaided = {}
    /\ submitted = FALSE
    /\ shown = <<>>
    /\ nav_details = <<>>
    /\ nav_result = <<>>

\* the application not imported
TasksIdle ==
    /\ tpc = "off"
    /\ task = <<>>
    /\ job_pending = FALSE

\* the worker processes not started
WorkerIdle ==
    /\ writable = TRUE
    /\ has_fcntl = TRUE
    /\ lock_inode = 0
    /\ wpc = <<>>
    /\ fd = <<>>
    /\ lock_held = {}
    /\ running = <<>>
    /\ cleanup = <<>>
    /\ startup_checked = <<>>

\* the storage layer at rest
DbIdle ==
    /\ db_rows = <<>>
    /\ db_op = "off"
    /\ db_call = <<>>
    /\ db_before = <<>>
    /\ db_stored = 0
    /\ db_returned = 0

\* the parsers at rest
ParseIdle ==
    /\ ppc = "off"
    /\ parse_in = <<>>
    /\ parse_out = <<>>

\* the application at rest
BatchIdle ==
    /\ bpc = "off"
    /\ caller = "none"
    /\ all_schools = <<>>
    /\ district_i = 1
    /\ batch_result = <<>>
    /\ scrape_log = <<>>
    /\ scrape_job = FALSE
    /\ runs = 0
    /\ sink_calls = 0
    /\ loop_ran = FALSE
    /\ queried = {}
    /\ got = <<>>
    /\ reached = FALSE

\* the detail extractor at rest
DetailIdle ==
    /\ idx = 1
    /\ listing = <<>>
    /\ detail_schools = <<>>
    /\ dpc = "off"
    /\ pages = <<>>
    /\ front = 0
    /\ url = 0
    /\ original_url = 0
    /\ detail_page = <<>>
    /\ detail_data = NoData
    /\ overview_button = FALSE
    /\ opened = FALSE
    /\ navigated = FALSE
    /\ extracted = FALSE
    /\ exit = "none"
    /\ failed = {}
    /\ attempted = {}

MergeInit ==
    /\ DetailIdle
    /\ BatchIdle
    /\ ParseIdle
    /\ DbIdle
    /\ WorkerIdle
    /\ NavIdle
    /\ TasksIdle
    /\ pc = "start"
    /\ schools \in {<<a, b>> : a \in Records, b \in Records}
    /\ merged_schools = <<>>
    /\ merged_swapped = <<>>
    /\ remerged = <<>>

merge_school_data ==
    /\ pc = "start"
    /\ merged_schools' = MergeAll(schools)
    /\ pc' = "merged"
    /\ UNCHANGED <<schools, merged_swapped, remerged>>
    /\ UNCHANGED notMerge

MergeSwapped ==
    /\ pc = "merged"
    /\ merged_swapped' = MergeAll(Reverse(schools))
    /\ pc' = "swapped"
    /\ UNCHANGED <<schools, merged_schools, remerged>>
    /\ UNCHANGED notMerge

MergeAgain ==
    /\ pc = "swapped"
    /\ remerged' = MergeAll(merged_schools)
    /\ pc' = "done"
    /\ UNCHANGED <<schools, merged_schools, merged_swapped>>
    /\ UNCHANGED notMerge

MergeNext == merge_school_data \/ MergeSwapped \/ MergeAgain

Spec == MergeInit /\ [][MergeNext]_vars


(***************************************************************************)
(* Claims about the Record Merger, checked under Spec.                     *)
(***************************************************************************)
Values(list) == {list[i] : i \in 1..Len(list)}

Merged == pc # "start"

\* the numeric fields of the output, per (normalized) name
NumericByName(list) == {<<r.name, r.num>> : r \in Values(list)}

\* C1: for every numeric field and every normalized name, if an input record
\* with that normalized name carries a known value for the field (0
\* included), the merged output record of that name carries a non-null value
\* for the field.
C1_NeverDowngrades ==
    Merged =>
        \A r \in Values(schools) : \A f \in Fields :
            (r.name # <<>> /\ r.num[f] # None) =>
                \E o \in Values(merged_schools) :
                    o.name = normalize_school_name(r.name) /\ o.num[f] # None

\* C2: no two distinct records of the same sub-region in the output of
\* merge_school_data have the same normalized name.
C2_DedupByNormalizedName ==
    Merged =>
        \A i, j \in 1..Len(merged_schools) :
            (i # j /\ merged_schools[i].district = merged_schools[j].district) =>
                normalize_school_name(merged_schools[i].name)
                    # normalize_school_name(merged_schools[j].name)

\* C3: two input records are merged into one only if they have the same
\* normalized name and the same sub-region; records with the same normalized
\* name but different sub-regions both appear in the output.
C3_KeyIsNameWithinSubRegion ==
    (Merged /\ schools[1].name # <<>> /\ schools[2].name # <<>>) =>
        /\ Len(merged_schools) = 1 =>
              /\ normalize_school_name(schools[1].name)
                    = normalize_school_name(schools[2].name)
              /\ schools[1].district = schools[2].district
        /\ ( /\ normalize_school_name(schools[1].name)
                  = normalize_school_name(schools[2].name)
             /\ schools[1].district # schools[2].district ) =>
              \A k \in 1..2 : \E o \in Values(merged_schools) :
                  /\ o.name = normalize_school_name(schools[k].name)
                  /\ o.district = schools[k].district

\* C4: every record in the list returned by merge_school_data has a
\* non-empty name.
C4_NonEmptyNames ==
    Merged => \A o \in Values(merged_schools) : o.name # <<>>

\* C5: normalize_school_name is idempotent: the name merge_school_data gives
\* a record, normalize_school_name(x), is a fixed point of
\* normalize_school_name, for every display name x.
C5_NormalizeIdempotent ==
    Merged =>
        \A r \in Values(schools) :
            normalize_school_name(normalize_school_name(r.name))
                = normalize_school_name(r.name)

SameKey ==
    /\ schools[1].name # <<>>
    /\ schools[2].name # <<>>
    /\ normalize_school_name(schools[1].name) = normalize_school_name(schools[2].name)

\* some field carries two different known values
Conflict ==
    \E f \in Fields :
        /\ schools[1].num[f] # None
        /\ schools[2].num[f] # None
        /\ schools[1].num[f] # schools[2].num[f]

NeitherHasData == ~has_data(schools[1]) /\ ~has_data(schools[2])

NoNumbers(school) == \A f \in Fields : school.num[f] = None

\* the one of the two input records whose display name is longer
LongerNamed == IF Len(schools[1].name) > Len(schools[2].name) THEN schools[1] ELSE schools[2]

\* C23: when two records sharing a normalized name both carry no numeric
\* data, merge_school_data keeps the record whose original display text is
\* longer, in either input order.
C23_LongerNameKept ==
    ( /\ Merged /\ SameKey
      /\ NoNumbers(schools[1]) /\ NoNumbers(schools[2])
      /\ Len(schools[1].name) # Len(schools[2].name) ) =>
        /\ Len(merged_schools) = 1
        /\ merged_schools[1] =
              [LongerNamed EXCEPT !.name = normalize_school_name(LongerNamed.name)]

\* C7: merge_school_data applied to its own result returns the same set of
\* records: same count, same names, same numeric fields.
C7_MergeIdempotent ==
    pc = "done" =>
        /\ Len(remerged) = Len(merged_schools)
        /\ NumericByName(remerged) = NumericByName(merged_schools)

\* a record carries numeric data when one of its numeric fields is known
Carries(school) == \E f \in Fields : school.num[f] # None

\* C16: when two records sharing a normalized name both carry numeric data,
\* the merge produces one record in which each numeric field holds the
\* non-null value if exactly one of the two has it, and the first-seen
\* record's value if both have it.
C16_FieldwiseMerge ==
    (Merged /\ SameKey /\ Carries(schools[1]) /\ Carries(schools[2])) =>
        /\ Len(merged_schools) = 1
        /\ \A f \in Fields :
              merged_schools[1].num[f] =
                  IF schools[1].num[f] # None THEN schools[1].num[f]
                  ELSE schools[2].num[f]


(***************************************************************************)
(* Part 2: parse_school_data_with_details (the per-entity loop) and        *)
(* get_school_detail, over an abstract browser. A browser call that the    *)
(* code awaits outside an inner try may raise asyncio.TimeoutError or      *)
(* another Exception; page.close() and page.goto() are taken to do what    *)
(* they are asked. A click has one of three effects on the browser:        *)
(* nothing visible to the model (a popup inside the page), a new URL of    *)
(* self.page, or a new view.                                               *)
(***************************************************************************)
Entities == 1..MaxEntities

\* the loop is reached only when no listing record has a class, student or
\* teacher count other than None or 0 (has_details)
ListingVecs ==
    {NoData, [NoData EXCEPT !["land_area"] = <<1>>], [NoData EXCEPT !["class_count"] = <<0>>]}

ListingOptions ==
    {[present |-> FALSE, num |-> NoData]} \cup {[present |-> TRUE, num |-> v] : v \in ListingVecs}

\* what the extraction strategies may recover from a detail view
DetailVecs == {NoData, [NoData EXCEPT !["student_count"] = <<1>>]}

RECURSIVE ListingFrom(_, _)
ListingFrom(l, e) ==
    IF e > MaxEntities THEN <<>>
    ELSE (IF l[e].present THEN <<[entity |-> e, num |-> l[e].num]>> ELSE <<>>)
            \o ListingFrom(l, e + 1)

\* the merge experiment at rest
MergeOff ==
    /\ pc = "off"
    /\ schools = <<>>
    /\ merged_schools = <<>>
    /\ merged_swapped = <<>>
    /\ remerged = <<>>

DetailInit ==
    /\ MergeOff
    /\ BatchIdle
    /\ ParseIdle
    /\ DbIdle
    /\ WorkerIdle
    /\ NavIdle
    /\ TasksIdle
    /\ idx = 1
    /\ listing \in [Entities -> ListingOptions]
    /\ detail_schools = ListingFrom(listing, 1)
    /\ dpc = "loop"
    /\ pages = <<>>
    /\ front = 0
    /\ url = 0
    /\ original_url = 0
    /\ detail_page = <<>>
    /\ detail_data = NoData
    /\ overview_button = FALSE
    /\ opened = FALSE
    /\ navigated = FALSE
    /\ extracted = FALSE
    /\ exit = "none"
    /\ failed = {}
    /\ attempted = {}

loopVars == <<idx, listing, detail_schools, attempted>>

FreshView(ps) == CHOOSE v \in 1..MaxViews : v \notin Values(ps) /\ \A w \in 1..MaxViews : w \notin Values(ps) => v <= w

Remove(ps, v) == SelectSeq(ps, LAMBDA x : x # v)

IsSeparate(dp) == dp # <<>> /\ dp # <<0>>

\* the views that may be in front once a view was closed or
\* bring_to_front was skipped
FrontAfter(ps) == {0} \cup Values(ps)

\* the effect of a click on the browser
ClickEffect(e) ==
    /\ e = "url" => url < MaxUrl
    /\ e = "view" => Len(pages) < MaxViews
    /\ url' = IF e = "url" THEN url + 1 ELSE url
    /\ pages' = IF e = "view" THEN Append(pages, FreshView(pages)) ELSE pages
    /\ front' = IF e = "view" THEN FreshView(pages) ELSE front
    /\ opened' = (opened \/ e = "view")
    /\ navigated' = (navigated \/ e = "url")

\* loop lines 1492-1518 and the call of line 1557; get_school_detail 589-602
StartEntity ==
    /\ dpc = "loop"
    /\ idx <= MaxEntities
    /\ attempted' = attempted \cup {idx}
    /\ original_url' = url
    /\ detail_page' = <<>>
    /\ detail_data' = NoData
    /\ overview_button' = FALSE
    /\ opened' = FALSE
    /\ navigated' = FALSE
    /\ extracted' = FALSE
    /\ exit' = "none"
    /\ dpc' = "click_name"
    /\ UNCHANGED <<idx, listing, detail_schools, pages, front, url, failed>>
    /\ UNCHANGED notDetail

\* step 1, lines 606-666: the click on the school name, directly or by script
ClickName ==
    /\ dpc = "click_name"
    /\ \E e \in {"none", "url", "view"} : ClickEffect(e)
    /\ dpc' = "wait_popup"
    /\ UNCHANGED <<loopVars, original_url, detail_page, detail_data, overview_button,
                   extracted, exit, failed>>
    /\ UNCHANGED notDetail

\* lines 667-669: the scripted click failed too: return detail_data
ClickNameFails ==
    /\ dpc = "click_name"
    /\ exit' = "early"
    /\ dpc' = "finally"
    /\ UNCHANGED <<loopVars, pages, front, url, original_url, detail_page, detail_data,
                   overview_button, opened, navigated, extracted, failed>>
    /\ UNCHANGED notDetail

\* step 2, lines 672-716: a selector locates the overview button
FindBySelector ==
    /\ dpc = "wait_popup"
    /\ overview_button' = TRUE
    /\ dpc' = "click_overview"
    /\ UNCHANGED <<loopVars, pages, front, url, original_url, detail_page, detail_data,
                   opened, navigated, extracted, exit, failed>>
    /\ UNCHANGED notDetail

\* lines 719-751: no selector matched, the script finds the button and clicks it
FindByScript ==
    /\ dpc = "wait_popup"
    /\ \E e \in {"none", "url", "view"} : ClickEffect(e)
    /\ dpc' = "js_clicked"
    /\ UNCHANGED <<loopVars, original_url, detail_page, detail_data, overview_button,
                   extracted, exit, failed>>
    /\ UNCHANGED notDetail

\* lines 752-754: the overview button is not found: return detail_data
OverviewNotFound ==
    /\ dpc = "wait_popup"
    /\ exit' = "early"
    /\ dpc' = "finally"
    /\ UNCHANGED <<loopVars, pages, front, url, original_url, detail_page, detail_data,
                   overview_button, opened, navigated, extracted, failed>>
    /\ UNCHANGED notDetail

\* step 3, lines 757-767, 773-777, 797-800: the click opens a new view
OverviewOpensView ==
    /\ dpc = "click_overview"
    /\ ClickEffect("view")
    /\ detail_page' = <<FreshView(pages)>>
    /\ dpc' = "load"
    /\ UNCHANGED <<loopVars, original_url, detail_data, overview_button, extracted, exit,
                   failed>>
    /\ UNCHANGED notDetail

\* lines 768-780, 801-803: no new view: the detail is shown in self.page
OverviewInPlace ==
    /\ dpc = "click_overview"
    /\ \E e \in {"none", "url"} : ClickEffect(e)
    /\ detail_page' = <<0>>
    /\ dpc' = "load"
    /\ UNCHANGED <<loopVars, original_url, detail_data, overview_button, extracted, exit,
                   failed>>
    /\ UNCHANGED notDetail

\* lines 781-806: the click raised and the scripted click raised: return
OverviewClickFails ==
    /\ dpc = "click_overview"
    /\ \E e \in {"none", "url"} : ClickEffect(e)
    /\ exit' = "early"
    /\ dpc' = "finally"
    /\ UNCHANGED <<loopVars, original_url, detail_page, detail_data, overview_button,
                   extracted, failed>>
    /\ UNCHANGED notDetail

\* lines 807-821: after the scripted click, the newest view or self.page
AfterScriptClick ==
    /\ dpc = "js_clicked"
    /\ detail_page' = IF pages # <<>> THEN <<pages[Len(pages)]>> ELSE <<0>>
    /\ dpc' = "load"
    /\ UNCHANGED <<loopVars, pages, front, url, original_url, detail_data, overview_button,
                   opened, navigated, extracted, exit, failed>>
    /\ UNCHANGED notDetail

\* step 4, lines 824-835: wait for the view and read its content
Load ==
    /\ dpc = "load"
    /\ dpc' = "extract"
    /\ UNCHANGED <<loopVars, pages, front, url, original_url, detail_page, detail_data,
                   overview_button, opened, navigated, extracted, exit, failed>>
    /\ UNCHANGED notDetail

\* lines 837-1007: the extraction strategies fill detail_data
Extract ==
    /\ dpc = "extract"
    /\ detail_data' \in DetailVecs
    /\ extracted' = TRUE
    /\ dpc' = "cleanup"
    /\ UNCHANGED <<loopVars, pages, front, url, original_url, detail_page, overview_button,
                   opened, navigated, exit, failed>>
    /\ UNCHANGED notDetail

\* an awaited browser call of lines 672-835 raises
Raise ==
    /\ dpc \in {"wait_popup", "click_overview", "js_clicked", "load"}
    /\ dpc' \in {"except_timeout", "except_error"}
    /\ failed' = failed \cup {idx}
    /\ UNCHANGED <<loopVars, pages, front, url, original_url, detail_page, detail_data,
                   overview_button, opened, navigated, extracted, exit>>
    /\ UNCHANGED notDetail

\* lines 1009-1016: the detail view is a separate view: close it, bring
\* self.page to the front, wait; the calls after close() may raise
CleanupClose ==
    /\ dpc = "cleanup"
    /\ IsSeparate(detail_page)
    /\ pages' = Remove(pages, detail_page[1])
    /\ \/ /\ front' = 0
          /\ exit' = "normal"
          /\ dpc' = "finally"
       \/ /\ front' \in FrontAfter(pages')
          /\ exit' = exit
          /\ dpc' \in {"except_timeout", "except_error"}
    /\ UNCHANGED <<loopVars, url, original_url, detail_page, detail_data, overview_button,
                   opened, navigated, extracted, failed>>
    /\ UNCHANGED notDetail

\* lines 1041-1045: the detail was shown in self.page and its URL changed:
\* go back to original_url, wait; the wait may raise
CleanupGoBack ==
    /\ dpc = "cleanup"
    /\ ~IsSeparate(detail_page)
    /\ url # original_url
    /\ url' = original_url
    /\ \/ exit' = "normal" /\ dpc' = "finally"
       \/ exit' = exit /\ dpc' \in {"except_timeout", "except_error"}
    /\ UNCHANGED <<loopVars, pages, front, original_url, detail_page, detail_data,
                   overview_button, opened, navigated, extracted, failed>>
    /\ UNCHANGED notDetail

\* lines 1009-1047 when neither branch applies
CleanupNothing ==
    /\ dpc = "cleanup"
    /\ ~IsSeparate(detail_page)
    /\ url = original_url
    /\ exit' = "normal"
    /\ dpc' = "finally"
    /\ UNCHANGED <<loopVars, pages, front, url, original_url, detail_page, detail_data,
                   overview_button, opened, navigated, extracted, failed>>
    /\ UNCHANGED notDetail

\* lines 1049-1058: except asyncio.TimeoutError
HandlerTimeout ==
    /\ dpc = "except_timeout"
    /\ pages' = IF IsSeparate(detail_page) THEN Remove(pages, detail_page[1]) ELSE pages
    /\ front' \in IF IsSeparate(detail_page) THEN FrontAfter(pages') ELSE {front}
    /\ exit' = "timeout"
    /\ dpc' = "finally"
    /\ UNCHANGED <<loopVars, url, original_url, detail_page, detail_data, overview_button,
                   opened, navigated, extracted, failed>>
    /\ UNCHANGED notDetail

\* lines 1059-1073: except Exception
HandlerError ==
    /\ dpc = "except_error"
    /\ pages' = IF IsSeparate(detail_page) THEN Remove(pages, detail_page[1]) ELSE pages
    /\ front' \in IF IsSeparate(detail_page) THEN FrontAfter(pages') ELSE {front}
    /\ url' = IF ~IsSeparate(detail_page) /\ url # original_url THEN original_url ELSE url
    /\ exit' = "error"
    /\ dpc' = "finally"
    /\ UNCHANGED <<loopVars, original_url, detail_page, detail_data, overview_button,
                   opened, navigated, extracted, failed>>
    /\ UNCHANGED notDetail

pages_after_finally_kept(ps) == ps

\* lines 1079-1084: every view other than self.page is closed
pages_after_finally(ps) == <<>>

\* lines 1074-1089: finally, then return detail_data
Finally ==
    /\ dpc = "finally"
    /\ pages' = pages_after_finally(pages)
    /\ front' = IF pages' = <<>> THEN 0 ELSE front
    /\ dpc' = "returned"
    /\ UNCHANGED <<loopVars, url, original_url, detail_page, detail_data, overview_button,
                   opened, navigated, extracted, exit, failed>>
    /\ UNCHANGED notDetail

dict_update_known_only(num, data) ==
    [f \in Fields |-> IF data[f] # None THEN data[f] ELSE num[f]]

\* line 1559: school_data.update(detail_data); detail_data has all five keys
dict_update(num, data) == [f \in Fields |-> data[f]]

HasEntity(list, e) == \E j \in 1..Len(list) : list[j].entity = e

\* lines 1497-1515, 1559, 1573-1574: the record of the entity is updated in
\* place, or created and appended
schools_after_entity(list, e, data) ==
    IF HasEntity(list, e)
    THEN [j \in 1..Len(list) |->
            IF list[j].entity = e
            THEN [list[j] EXCEPT !.num = dict_update(list[j].num, data)]
            ELSE list[j]]
    ELSE Append(list, [entity |-> e, num |-> dict_update(NoData, data)])

\* lines 1557-1576: back in the loop with the returned detail_data
ReturnToLoop ==
    /\ dpc = "returned"
    /\ detail_schools' = schools_after_entity(detail_schools, idx, detail_data)
    /\ dpc' = "post"
    /\ UNCHANGED <<idx, listing, attempted, pages, front, url, original_url, detail_page,
                   detail_data, overview_button, opened, navigated, extracted, exit, failed>>
    /\ UNCHANGED notDetail

\* lines 1579-1600: the wait and the popup check pass; next entity
PostWait ==
    /\ dpc = "post"
    /\ idx' = idx + 1
    /\ dpc' = "loop"
    /\ UNCHANGED <<listing, detail_schools, attempted, pages, front, url, original_url,
                   detail_page, detail_data, overview_button, opened, navigated, extracted,
                   exit, failed>>
    /\ UNCHANGED notDetail

\* lines 1579, 1602-1618: the wait raises; the handler closes every other
\* view and continues with the next entity
PostWaitRaises ==
    /\ dpc = "post"
    /\ pages' = <<>>
    /\ front' = 0
    /\ idx' = idx + 1
    /\ dpc' = "loop"
    /\ UNCHANGED <<listing, detail_schools, attempted, url, original_url, detail_page,
                   detail_data, overview_button, opened, navigated, extracted, exit, failed>>
    /\ UNCHANGED notDetail

\* lines 1620-1627: the loop is over: return schools
LoopDone ==
    /\ dpc = "loop"
    /\ idx > MaxEntities
    /\ dpc' = "done"
    /\ UNCHANGED <<loopVars, pages, front, url, original_url, detail_page, detail_data,
                   overview_button, opened, navigated, extracted, exit, failed>>
    /\ UNCHANGED notDetail

DetailNext ==
    \/ StartEntity
    \/ ClickName
    \/ ClickNameFails
    \/ FindBySelector
    \/ FindByScript
    \/ OverviewNotFound
    \/ OverviewOpensView
    \/ OverviewInPlace
    \/ OverviewClickFails
    \/ AfterScriptClick
    \/ Load
    \/ Extract
    \/ Raise
    \/ CleanupClose
    \/ CleanupGoBack
    \/ CleanupNothing
    \/ HandlerTimeout
    \/ HandlerError
    \/ Finally
    \/ ReturnToLoop
    \/ PostWait
    \/ PostWaitRaises
    \/ LoopDone

SpecDetail == DetailInit /\ [][DetailNext]_vars


(***************************************************************************)
(* Claims about the Detail Extractor, checked under SpecDetail.            *)
(***************************************************************************)
RecordOf(list, e) == list[CHOOSE j \in 1..Len(list) : list[j].entity = e]

C9_ViewsClosedOnReturn ==
    dpc \in {"returned", "post", "loop", "done"} => (pages = <<>> /\ front = 0)

\* get_school_detail returned early, a view having been opened during the call
C9_Witness ==
    /\ dpc = "returned"
    /\ exit = "early"
    /\ opened
    /\ pages = <<>>
    /\ front = 0

\* C10: when the detail was shown in the main view (no separate view opened)
\* and the URL of the main view changed during the call, the main view is
\* back at the original listing URL when get_school_detail returns, on every
\* exit path.
C10_UrlRestored ==
    (dpc = "returned" /\ ~opened /\ navigated) => url = original_url


(***************************************************************************)
(* Part 3: get_all_schools as the application runs it. A query             *)
(* (query_all_schools_in_county, query_schools) catches what goes wrong    *)
(* inside it and returns the records it has, so an unreachable entry page  *)
(* shows as an empty list; the call of query_schools is also allowed to    *)
(* raise, which the loop of get_all_schools handles. The scheduler runs    *)
(* job 'scrape_job' once at its date (DateTrigger) and then drops it.      *)
(***************************************************************************)
DistrictList == 1..MaxDistricts

BatchRecords(dl) == [name : {<<"a">>, <<"b">>}, district : {dl}, num : {NoData, OneData}]

\* the non-empty lists a query of sub-region dl can return
QueryRecords(dl) == {<<r>> : r \in BatchRecords(dl)}

CountyRecords == UNION {QueryRecords(dl) : dl \in DistrictList}

NoneGot == [dl \in DistrictList |-> <<>>]

BatchInit ==
    /\ MergeOff
    /\ DetailIdle
    /\ ParseIdle
    /\ DbIdle
    /\ WorkerIdle
    /\ NavIdle
    /\ TasksIdle
    /\ bpc = "startup"
    /\ caller \in {"startup", "test"}
    /\ all_schools = <<>>
    /\ district_i = 1
    /\ batch_result = <<>>
    /\ scrape_log \in {<<>>, <<"success">>}
    /\ scrape_job = FALSE
    /\ runs = 0
    /\ sink_calls = 0
    /\ loop_ran = FALSE
    /\ queried = {}
    /\ got = NoneGot
    /\ reached = FALSE

\* database.py 468-474: no successful scrape logged, or the last one expired
should_scrape(expired) == (\A k \in 1..Len(scrape_log) : scrape_log[k] # "success") \/ expired

\* app.py 96-105: the start-up check finds the data missing or stale
StartupScrape ==
    /\ bpc = "startup"
    /\ caller = "startup"
    /\ \E expired \in BOOLEAN : should_scrape(expired)
    /\ bpc' = "task"
    /\ UNCHANGED <<caller, all_schools, district_i, batch_result, scrape_log, scrape_job,
                   runs, sink_calls, loop_ran, queried, got, reached>>
    /\ UNCHANGED notBatch

\* app.py 106-111: the data is fresh: only schedule the next scrape
StartupNoScrape ==
    /\ bpc = "startup"
    /\ caller = "startup"
    /\ \E expired \in BOOLEAN : ~should_scrape(expired)
    /\ scrape_job' = TRUE
    /\ bpc' = "idle"
    /\ UNCHANGED <<caller, all_schools, district_i, batch_result, scrape_log,
                   runs, sink_calls, loop_ran, queried, got, reached>>
    /\ UNCHANGED notBatch

\* test_incremental_save.py 44: get_all_schools(on_school_scraped=save_callback)
\* against the signature of scraper.py 1993, which has no such parameter: the
\* call raises TypeError before the body runs
get_all_schools_with_sink ==
    /\ bpc = "startup"
    /\ caller = "test"
    /\ bpc' = "type_error"
    /\ UNCHANGED <<caller, all_schools, district_i, batch_result, scrape_log, scrape_job,
                   runs, sink_calls, loop_ran, queried, got, reached>>
    /\ UNCHANGED notBatch

\* app.py 41-44 and scraper.py 2000-2009: run_scrape_task calls
\* scrape_schools(), which calls get_all_schools()
run_scrape_task ==
    /\ bpc = "task"
    /\ runs' = runs + 1
    /\ all_schools' = <<>>
    /\ district_i' = 1
    /\ batch_result' = <<>>
    /\ loop_ran' = FALSE
    /\ queried' = {}
    /\ got' = NoneGot
    /\ reached' = FALSE
    /\ bpc' = "enter"
    /\ UNCHANGED <<caller, scrape_log, scrape_job, sink_calls>>
    /\ UNCHANGED notBatch

\* scraper.py 2011 (start, 32-43): the browser starts
BrowserStarts ==
    /\ bpc = "enter"
    /\ bpc' = "county"
    /\ UNCHANGED <<caller, all_schools, district_i, batch_result, scrape_log, scrape_job,
                   runs, sink_calls, loop_ran, queried, got, reached>>
    /\ UNCHANGED notBatch

\* scraper.py 2011, 2036-2039: start raises; the outer handler takes it
BrowserStartFails ==
    /\ bpc = "enter"
    /\ bpc' = "merge"
    /\ UNCHANGED <<caller, all_schools, district_i, batch_result, scrape_log, scrape_job,
                   runs, sink_calls, loop_ran, queried, got, reached>>
    /\ UNCHANGED notBatch

\* scraper.py 2015-2018: the county-wide query returns records
CountySucceeds ==
    /\ bpc = "county"
    /\ \E res \in CountyRecords : all_schools' = all_schools \o res
    /\ reached' = TRUE
    /\ bpc' = "leave"
    /\ UNCHANGED <<caller, district_i, batch_result, scrape_log, scrape_job,
                   runs, sink_calls, loop_ran, queried, got>>
    /\ UNCHANGED notBatch

\* scraper.py 2019-2023: the county-wide query returns nothing (entry page
\* unreachable, or reached without records): fall back to the loop
CountyFallsBack ==
    /\ bpc = "county"
    /\ \E r \in BOOLEAN : reached' = r
    /\ loop_ran' = TRUE
    /\ bpc' = "districts"
    /\ UNCHANGED <<caller, all_schools, district_i, batch_result, scrape_log, scrape_job,
                   runs, sink_calls, queried, got>>
    /\ UNCHANGED notBatch

QueryOutcomes == {"raises", "unreachable", "empty", "records"}

next_district_stop_on_failure(i, outcome) ==
    IF outcome \in {"raises", "unreachable", "empty"} THEN MaxDistricts + 1 ELSE i + 1

\* scraper.py 2024, 2033-2035: the for loop goes on to the next sub-region
\* whatever happened to this one
next_district(i, outcome) == i + 1

\* scraper.py 2024-2035: one iteration of the loop
QueryDistrict ==
    /\ bpc = "districts"
    /\ district_i <= MaxDistricts
    /\ \E outcome \in QueryOutcomes :
        \E res \in (IF outcome = "records" THEN QueryRecords(district_i) ELSE {<<>>}) :
            /\ all_schools' = all_schools \o res
            /\ got' = [got EXCEPT ![district_i] = res]
            /\ reached' = (reached \/ outcome \in {"empty", "records"})
            /\ district_i' = next_district(district_i, outcome)
    /\ queried' = queried \cup {district_i}
    /\ UNCHANGED <<bpc, caller, batch_result, scrape_log, scrape_job, runs, sink_calls,
                   loop_ran>>
    /\ UNCHANGED notBatch

\* scraper.py 2024: the list of sub-regions is exhausted
LoopEnds ==
    /\ bpc = "districts"
    /\ district_i > MaxDistricts
    /\ bpc' = "leave"
    /\ UNCHANGED <<caller, all_schools, district_i, batch_result, scrape_log, scrape_job,
                   runs, sink_calls, loop_ran, queried, got, reached>>
    /\ UNCHANGED notBatch

\* scraper.py 2011 (close, 45-50), 2036-2039: leaving the context closes the
\* browser; if that raises, the outer handler takes it
LeaveContext ==
    /\ bpc = "leave"
    /\ bpc' = "merge"
    /\ UNCHANGED <<caller, all_schools, district_i, batch_result, scrape_log, scrape_job,
                   runs, sink_calls, loop_ran, queried, got, reached>>
    /\ UNCHANGED notBatch

\* scraper.py 2041-2046: merge and return
MergeAndReturn ==
    /\ bpc = "merge"
    /\ batch_result' = MergeAll(all_schools)
    /\ bpc' = "returned"
    /\ UNCHANGED <<caller, all_schools, district_i, scrape_log, scrape_job,
                   runs, sink_calls, loop_ran, queried, got, reached>>
    /\ UNCHANGED notBatch

\* app.py 47-56: the records are saved and the run is logged
TaskLogsSuccess ==
    /\ bpc = "returned"
    /\ scrape_log' = Append(scrape_log, "success")
    /\ bpc' = "after_task"
    /\ UNCHANGED <<caller, all_schools, district_i, batch_result, scrape_job,
                   runs, sink_calls, loop_ran, queried, got, reached>>
    /\ UNCHANGED notBatch

\* app.py 47, 57-63: save_schools opens a connection only for a non-empty
\* list (database.py 241-244); if that raises, the run is logged as an error
TaskLogsError ==
    /\ bpc = "returned"
    /\ batch_result # <<>>
    /\ scrape_log' = Append(scrape_log, "error")
    /\ bpc' = "after_task"
    /\ UNCHANGED <<caller, all_schools, district_i, batch_result, scrape_job,
                   runs, sink_calls, loop_ran, queried, got, reached>>
    /\ UNCHANGED notBatch

\* app.py 110-111 and 66-86: after the start-up run, schedule the next scrape
StartupSchedules ==
    /\ bpc = "after_task"
    /\ caller = "startup"
    /\ scrape_job' = TRUE
    /\ bpc' = "idle"
    /\ UNCHANGED <<caller, all_schools, district_i, batch_result, scrape_log,
                   runs, sink_calls, loop_ran, queried, got, reached>>
    /\ UNCHANGED notBatch

\* app.py 37-63: run as the job of the scheduler or as the thread of
\* refresh_data, run_scrape_task ends without scheduling anything
TaskEnds ==
    /\ bpc = "after_task"
    /\ caller \in {"timer", "refresh"}
    /\ bpc' = "idle"
    /\ UNCHANGED <<caller, all_schools, district_i, batch_result, scrape_log, scrape_job,
                   runs, sink_calls, loop_ran, queried, got, reached>>
    /\ UNCHANGED notBatch

\* app.py 80-86: the date of job 'scrape_job' comes; a job with a DateTrigger
\* runs once and is then dropped by the scheduler
JobFires ==
    /\ bpc = "idle"
    /\ scrape_job
    /\ runs < MaxRuns
    /\ scrape_job' = FALSE
    /\ caller' = "timer"
    /\ bpc' = "task"
    /\ UNCHANGED <<all_schools, district_i, batch_result, scrape_log,
                   runs, sink_calls, loop_ran, queried, got, reached>>
    /\ UNCHANGED notBatch

\* app.py 235-252: POST /api/refresh starts run_scrape_task in a thread and
\* schedules the next scrape
refresh_data ==
    /\ bpc = "idle"
    /\ runs < MaxRuns
    /\ scrape_job' = TRUE
    /\ caller' = "refresh"
    /\ bpc' = "task"
    /\ UNCHANGED <<all_schools, district_i, batch_result, scrape_log,
                   runs, sink_calls, loop_ran, queried, got, reached>>
    /\ UNCHANGED notBatch

BatchNext ==
    \/ StartupScrape
    \/ StartupNoScrape
    \/ get_all_schools_with_sink
    \/ run_scrape_task
    \/ BrowserStarts
    \/ BrowserStartFails
    \/ CountySucceeds
    \/ CountyFallsBack
    \/ QueryDistrict
    \/ LoopEnds
    \/ LeaveContext
    \/ MergeAndReturn
    \/ TaskLogsSuccess
    \/ TaskLogsError
    \/ StartupSchedules
    \/ TaskEnds
    \/ JobFires
    \/ refresh_data

SpecBatch == BatchInit /\ [][BatchNext]_vars


(***************************************************************************)
(* Claims about the full batch, checked under SpecBatch.                   *)
(***************************************************************************)
\* C11: get_all_schools accepts a caller-supplied sink (on_school_scraped)
\* and invokes it exactly once per finalized entity, before the final merge:
\* a call that passes a sink is not rejected, and when it returns the sink
\* was invoked once for each entity gathered before the merge.
C11_SinkOncePerEntity ==
    caller = "test" =>
        /\ bpc # "type_error"
        /\ (bpc = "returned" => sink_calls = Len(all_schools))

\* the last row of scrape_log
LastStatus == scrape_log[Len(scrape_log)]

\* C12: when the entry page was unreachable for every query of a run (the
\* county-wide query and the query of every sub-region), the run is recorded
\* as an error (a failure the caller can tell from a
\* successful run that found no records).
C12_TotalFailureSurfaced ==
    (bpc = "after_task" /\ queried = DistrictList /\ ~reached) => LastStatus = "error"

\* database.py 415-435: the time of the newest row of scrape_log whose status
\* is 'success' (the time of a row is its position), None when there is none
get_last_scrape_time ==
    LET successes == {k \in 1..Len(scrape_log) : scrape_log[k] = "success"}
    IN IF successes = {} THEN None
       ELSE <<CHOOSE k \in successes : \A j \in successes : j <= k>>

\* C29: when run_scrape_task finishes a run that retrieved no records, the
\* run is not recorded as a success: get_last_scrape_time is what it was
\* before the run was logged, and should_scrape is still true if it was.
C29_EmptyRunNotSuccess ==
    [][(bpc = "returned" /\ batch_result = <<>> /\ bpc' = "after_task")
          => /\ get_last_scrape_time' = get_last_scrape_time
             /\ (should_scrape(FALSE) => should_scrape(FALSE)')]_vars

C20_AlwaysPendingJob ==
    bpc = "idle" => scrape_job


(***************************************************************************)
(* Part 4: the parsers.                                                    *)
(***************************************************************************)
DigitChars == {"0", "1", "2", "3"}

DigitValue(c) == IF c = "0" THEN 0 ELSE IF c = "1" THEN 1 ELSE IF c = "2" THEN 2 ELSE 3

\* the value of a run of decimal digits
RECURSIVE DigitsValue(_)
DigitsValue(s) ==
    IF s = <<>> THEN 0
    ELSE 10 * DigitsValue(SubSeq(s, 1, Len(s) - 1)) + DigitValue(s[Len(s)])

\* int(cleaned) succeeds on a run of digits with at most one sign in front
\* (cleaned holds digits and "-" only) and raises ValueError otherwise
IsIntLiteral(s) ==
    LET digits == IF s # <<>> /\ s[1] = "-" THEN Tail(s) ELSE s
    IN  digits # <<>> /\ \A i \in 1..Len(digits) : digits[i] \in DigitChars

IntValue(s) == IF s[1] = "-" THEN 0 - DigitsValue(Tail(s)) ELSE DigitsValue(s)

keep_digits_only(c) == c \in DigitChars

\* line 1884: re.sub(r'[^\d-]', '', text) keeps the digits and every "-"
kept_by_sub(c) == c \in DigitChars \cup {"-"}

\* lines 1878-1889
parse_number(text) ==
    IF text = <<>> THEN None
    ELSE
      LET cleaned == SelectSeq(text, kept_by_sub)
      IN  IF cleaned = <<>> THEN None
          ELSE IF IsIntLiteral(cleaned) THEN <<IntValue(cleaned)>>
          ELSE None

(***************************************************************************)
(* parse_school_data. A page is what BeautifulSoup finds in it: the        *)
(* matches of the two grammars in the text of div#search (search is <<>>   *)
(* when the div is absent) and the tables, each a list of rows of cell     *)
(* texts, with a flag for an id matching GridView|gv|Grid. Keywords:       *)
(* xuexiao 學校, mingcheng 名稱, xiangzhen 鄉鎮, shiqu 市區, xingzhengqu   *)
(* 行政區, banji 班級, xuesheng 學生, jiaoshi 教師, shu 數, xiaodi 校地,   *)
(* xiaoshe 校舍, mianji 面積, dong 棟, guoxiao 國小, shixiao 實小.         *)
(***************************************************************************)
Has(text, k) == \E i \in 1..Len(text) : text[i] = k

\* Python's `sub in text` for texts
Contains(text, sub) ==
    \E i \in 0..(Len(text) - Len(sub)) : SubSeq(text, i + 1, i + Len(sub)) = sub

not_control(c) == c \notin {"\n", "\r", "\t"}

\* lines 1872-1876
clean_text(text) == IF text = <<>> THEN <<>> ELSE SelectSeq(strip(text), not_control)

Unknown == <<"unknown">>

\* Python's `a or b` for texts
Or(a, b) == IF a # <<>> THEN a ELSE b

\* lines 1660-1680: the record of one match, or nothing when the match is
\* of another sub-region
match_records(match, district) ==
    LET school_name == strip(match.name)
        dist == strip(match.dist)
        school_type == strip(match.type)
    IN  IF district # <<>> /\ ~Contains(dist, district) THEN <<>>
        ELSE <<[name |-> school_name, district |-> Or(dist, Or(district, Unknown)),
                type |-> school_type, num |-> NoData]>>

RECURSIVE records_of_matches(_, _)
records_of_matches(matches, district) ==
    IF matches = <<>> THEN <<>>
    ELSE match_records(Head(matches), district) \o records_of_matches(Tail(matches), district)

\* lines 1644-1680: the delimited-text strategy
delimited_text(page, district) ==
    IF page.search = <<>> THEN <<>>
    ELSE
      LET found == page.search[1]
          matches == IF found.spaced # <<>> THEN found.spaced ELSE found.unspaced
      IN  records_of_matches(matches, district)

TableKeywords == {"xuexiao", "banji", "xuesheng", "jiaoshi"}

table_text_has(t, keywords) ==
    \E i \in 1..Len(t.rows) : \E j \in 1..Len(t.rows[i]) : \E k \in keywords :
        Has(t.rows[i][j], k)

\* lines 1689-1710: the table the strategies read: <<>> or <<table>>
find_table(page) ==
    LET tables == page.tables
        byId == {i \in 1..Len(tables) : tables[i].grid}
        byKeyword == {i \in 1..Len(tables) :
                        Len(tables[i].rows) > 1 /\ table_text_has(tables[i], TableKeywords)}
        bySize == {i \in 1..Len(tables) : Len(tables[i].rows) > 2}
    IN  IF byId # {} THEN <<tables[SetMin(byId)]>>
        ELSE IF byKeyword # {} THEN <<tables[SetMin(byKeyword)]>>
        ELSE IF bySize # {} THEN <<tables[SetMin(bySize)]>>
        ELSE <<>>

HeaderKeywords == {"xuexiao", "banji", "xuesheng", "jiaoshi", "xiaodi", "xiaoshe", "dong"}

HeaderKeys == {"name", "district"} \cup Fields

\* lines 1740-1753: the column a header cell names
header_key(text) ==
    IF Has(text, "xuexiao") /\ Has(text, "mingcheng") THEN "name"
    ELSE IF Has(text, "xiangzhen") \/ Has(text, "shiqu") \/ Has(text, "xingzhengqu")
        THEN "district"
    ELSE IF Has(text, "banji") /\ Has(text, "shu") THEN "class_count"
    ELSE IF Has(text, "xuesheng") /\ Has(text, "shu") THEN "student_count"
    ELSE IF Has(text, "jiaoshi") /\ Has(text, "shu") THEN "teacher_count"
    ELSE IF Has(text, "xiaodi") /\ Has(text, "mianji") THEN "land_area"
    ELSE IF Has(text, "xiaoshe") /\ Has(text, "mianji") THEN "building_area"
    ELSE "none"

SetMax(S) == CHOOSE x \in S : \A y \in S : y <= x

cleaned_cells(row) == [j \in 1..Len(row) |-> clean_text(row[j])]

\* line 1733
has_header_keywords(cell_texts) ==
    \E j \in 1..Len(cell_texts) : \E k \in HeaderKeywords : Has(cell_texts[j], k)

\* lines 1728-1736: index of the header row among the first three rows, 0 if none
header_row_of(rows) ==
    LET S == {i \in 1..Len(rows) : i <= 3 /\ has_header_keywords(cleaned_cells(rows[i]))}
    IN  IF S = {} THEN 0 ELSE SetMin(S)

\* lines 1717-1753: per column key, None or <<idx>> with idx counted from 0;
\* a later cell naming the same key overwrites an earlier one
header_indices_of(cell_texts) ==
    [k \in HeaderKeys |->
        LET S == {j \in 1..Len(cell_texts) : header_key(cell_texts[j]) = k}
        IN  IF S = {} THEN None ELSE <<SetMax(S) - 1>>]

\* line 1777: any(header_indices.values())
any_index(header_indices) == \E k \in HeaderKeys : Truthy(header_indices[k])

\* cell_texts[idx] for an index counted from 0
CellAt(cell_texts, ix) == cell_texts[ix[1] + 1]

InRow(cell_texts, ix) == ix # None /\ ix[1] < Len(cell_texts)

\* lines 1778-1804: a data row read through the header's index map
header_mapped_row(cell_texts, header_indices, district) ==
    LET school_name == IF InRow(cell_texts, header_indices["name"])
                       THEN CellAt(cell_texts, header_indices["name"]) ELSE <<>>
        district_text == IF InRow(cell_texts, header_indices["district"])
                         THEN CellAt(cell_texts, header_indices["district"]) ELSE <<>>
    IN  IF school_name = <<>> THEN <<>>
        ELSE <<[name |-> school_name,
                district |-> Or(district_text, Or(district, Unknown)),
                type |-> None,
                num |-> [f \in Fields |->
                            IF InRow(cell_texts, header_indices[f])
                            THEN parse_number(CellAt(cell_texts, header_indices[f]))
                            ELSE None]]>>

looks_like_school(text) ==
    Has(text, "guoxiao") \/ Has(text, "shixiao") \/ Has(text, "xuexiao")

RECURSIVE numbers_of(_)
numbers_of(cell_texts) ==
    IF cell_texts = <<>> THEN <<>>
    ELSE (IF parse_number(Head(cell_texts)) # None
          THEN <<parse_number(Head(cell_texts))>> ELSE <<>>)
         \o numbers_of(Tail(cell_texts))

\* lines 1852-1859: the numbers of the row in the order class, student,
\* teacher, land, building
positional_fields(numbers) ==
    IF Len(numbers) < 3 THEN NoData
    ELSE [f \in Fields |->
            IF f = "class_count" THEN numbers[1]
            ELSE IF f = "student_count" THEN numbers[2]
            ELSE IF f = "teacher_count" THEN numbers[3]
            ELSE IF f = "land_area" /\ Len(numbers) >= 4 THEN numbers[4]
            ELSE IF f = "building_area" /\ Len(numbers) >= 5 THEN numbers[5]
            ELSE None]

\* lines 1806-1861: a data row read by position
positional_row(cell_texts, district) ==
    LET S == {j \in 1..Len(cell_texts) : looks_like_school(cell_texts[j])}
        school_name == IF S # {} THEN cell_texts[SetMin(S)] ELSE cell_texts[1]
    IN  IF school_name = <<>> THEN <<>>
        ELSE <<[name |-> school_name,
                district |-> Or(district, Unknown),
                type |-> None,
                num |-> positional_fields(numbers_of(cell_texts))]>>

\* lines 1764-1864: one data row
row_records(row, header_row, header_indices, district) ==
    LET cell_texts == cleaned_cells(row)
    IN  IF Len(row) < 2 THEN <<>>
        ELSE IF \A j \in 1..Len(cell_texts) : cell_texts[j] = <<>> THEN <<>>
        ELSE IF header_row # 0 /\ any_index(header_indices)
            THEN header_mapped_row(cell_texts, header_indices, district)
        ELSE positional_row(cell_texts, district)

RECURSIVE rows_records(_, _, _, _)
rows_records(rows, header_row, header_indices, district) ==
    IF rows = <<>> THEN <<>>
    ELSE row_records(Head(rows), header_row, header_indices, district)
         \o rows_records(Tail(rows), header_row, header_indices, district)

\* lines 1712-1864: the table strategies, header-mapped or positional
table_strategies(page, district) ==
    IF find_table(page) = <<>> THEN <<>>
    ELSE
      LET rows == find_table(page)[1].rows
          header_row == header_row_of(rows)
          header_indices == IF header_row = 0 THEN [k \in HeaderKeys |-> None]
                            ELSE header_indices_of(cleaned_cells(rows[header_row]))
          data_rows == IF header_row # 0 THEN SubSeq(rows, header_row + 1, Len(rows))
                       ELSE IF Len(rows) > 1 THEN Tail(rows) ELSE rows
      IN  rows_records(data_rows, header_row, header_indices, district)

parse_school_data_without_return(page, district) ==
    delimited_text(page, district) \o table_strategies(page, district)

\* lines 1640-1870: `schools` (parsed) collects the records; after the delimited-text
\* strategy a non-empty list is returned at once (1682-1683)
parse_school_data(page, district) ==
    LET parsed == delimited_text(page, district)
    IN  IF parsed # <<>> THEN parsed
        ELSE parsed \o table_strategies(page, district)

(***************************************************************************)
(* The table strategy of get_school_detail (lines 848-920). The view is    *)
(* the list of its tables, each a list of rows of cell texts. Keywords:    *)
(* ren 人, pingfang 平方公尺; 校地面積 is xiaodi followed by mianji.       *)
(***************************************************************************)
RECURSIVE Join(_)
\* ' '.join(cells)
Join(cells) ==
    IF cells = <<>> THEN <<>>
    ELSE IF Len(cells) = 1 THEN cells[1]
    ELSE cells[1] \o <<" ">> \o Join(Tail(cells))

\* cell.get_text(strip=True) for each cell of a row
stripped_cells(row) == [j \in 1..Len(row) |-> strip(row[j])]

\* lines 859, 885: the first row names the count of `who` in persons
names_in_persons(first_row_text, who) ==
    Has(first_row_text, who) /\ Has(first_row_text, "shu") /\ Has(first_row_text, "ren")

\* lines 871-873: the first cell of the first row names the class count; 班
\* is a character of 班級, so the test of 數 or 班 adds nothing
names_class_count(first_row) ==
    Len(first_row) > 0 /\ Has(strip(first_row[1]), "banji")

\* the number in the first cell of row n (counted from 1), None if there is
\* no such cell or it does not parse
first_cell_number(rows, n) ==
    IF Len(rows) >= n /\ Len(rows[n]) >= 1 THEN parse_number(strip(rows[n][1])) ELSE None

student_number_second_row(rows) == first_cell_number(rows, 2)

\* lines 860-865: rows[2], the third row
student_number(rows) == first_cell_number(rows, 3)

\* lines 874-879: rows[1], the second row
class_number(rows) == first_cell_number(rows, 2)

\* lines 886-891: rows[2], the third row
teacher_number(rows) == first_cell_number(rows, 3)

\* a field is set only when a number was found
SetIfFound(data, f, num) == IF num # None THEN [data EXCEPT ![f] = num] ELSE data

\* lines 899-920: the row after the first row that holds the two area labels
area_label_row(rows) ==
    LET S == {i \in 1..Len(rows) :
                /\ Contains(Join(stripped_cells(rows[i])), <<"xiaodi", "mianji">>)
                /\ Has(Join(stripped_cells(rows[i])), "pingfang")}
    IN  IF S = {} THEN 0 ELSE SetMin(S)

areas_of(data, rows) ==
    LET i == area_label_row(rows)
    IN  IF i = 0 \/ i + 1 > Len(rows) THEN data
        ELSE
          LET data_cells == rows[i + 1]
              land == IF Len(data_cells) >= 1 THEN parse_number(strip(data_cells[1])) ELSE None
              building == IF Len(data_cells) >= 2 THEN parse_number(strip(data_cells[2])) ELSE None
          IN  SetIfFound(SetIfFound(data, "land_area", land), "building_area", building)

\* lines 851-920: one table
table_fields(data, rows) ==
    IF Len(rows) < 2 THEN data
    ELSE
      LET first_row_text == Join(stripped_cells(rows[1]))
          d1 == IF names_in_persons(first_row_text, "xuesheng")
                THEN SetIfFound(data, "student_count", student_number(rows)) ELSE data
          d2 == IF names_class_count(rows[1])
                THEN SetIfFound(d1, "class_count", class_number(rows)) ELSE d1
          d3 == IF names_in_persons(first_row_text, "jiaoshi")
                THEN SetIfFound(d2, "teacher_count", teacher_number(rows)) ELSE d2
      IN  IF Has(first_row_text, "xiaodi") THEN areas_of(d3, rows) ELSE d3

RECURSIVE tables_fields(_, _)
tables_fields(data, tables) ==
    IF tables = <<>> THEN data
    ELSE tables_fields(table_fields(data, Head(tables)), Tail(tables))

\* lines 848-920 on the detail_data of lines 589-595
table_semantics(tables) == tables_fields(NoData, tables)

StudentPersons == <<"xuesheng", "shu", "(", "ren", ")">>

TeacherPersons == <<"jiaoshi", "shu", "(", "ren", ")">>

ClassHeader == <<"banji", "shu", "(", "ban", ")">>

AreaLabels == <<<<"xiaodi", "mianji", "pingfang">>, <<"xiaoshe", "mianji", "pingfang">>>>

DetailHeaderRows == {<<StudentPersons>>, <<TeacherPersons>>, <<ClassHeader, <<"a">>>>,
                     <<<<"a">>, ClassHeader>>, <<<<"xuesheng">>, <<"ren", "shu">>>>, AreaLabels}

DetailDataRows == {<<<<"3", "1", "2">>>>, <<<<" ", "1", ",", "2">>, <<"3">>>>, <<<<"a">>>>,
                   <<>>, AreaLabels}

DetailTables == {<<h>> : h \in DetailHeaderRows}
                \cup {<<h, r>> : h \in DetailHeaderRows, r \in DetailDataRows}
                \cup {<<h, r, q>> : h \in DetailHeaderRows, r \in DetailDataRows,
                                    q \in DetailDataRows}

DetailViews == {<<>>} \cup {<<t>> : t \in DetailTables}
               \cup {<<t, u>> : t \in DetailTables, u \in DetailTables}

ViewInit ==
    /\ ppc = "view"
    /\ parse_in \in DetailViews
    /\ parse_out = <<>>

(***************************************************************************)
(* The three extraction strategies of get_school_detail (lines 848-1000).  *)
(* What the patterns of the regex strategy match in the text of the view,  *)
(* and what the element scan finds in its elements, are given per field:   *)
(* None, or the number of the first match.                                 *)
(***************************************************************************)
\* any(detail_data.values()), lines 929 and 969
any_value(data) == \E f \in Fields : Truthy(data[f])

\* lines 959-965 and 976-1000: a field is assigned only while it is None
fill_missing(data, found) ==
    [f \in Fields |-> IF data[f] = None THEN found[f] ELSE data[f]]

\* lines 848-1000: the fields, and the strategies that ran, in order
extract_strategies(tables, regex_found, scan_found) ==
    LET from_tables == table_semantics(tables)
        regex_runs == ~any_value(from_tables)
        from_regex == IF regex_runs THEN fill_missing(from_tables, regex_found)
                      ELSE from_tables
        scan_runs == ~any_value(from_regex)
        from_scan == IF scan_runs THEN fill_missing(from_regex, scan_found) ELSE from_regex
    IN  [data |-> from_scan,
         ran |-> <<"tables">> \o (IF regex_runs THEN <<"regex">> ELSE <<>>)
                              \o (IF scan_runs THEN <<"scan">> ELSE <<>>)]

StudentTable(cell) == <<<<StudentPersons>>, <<<<"a">>>>, <<cell>>>>

ExtractViews == {<<>>, <<StudentTable(<<"3", "1", "2">>)>>, <<StudentTable(<<"0">>)>>,
                 <<StudentTable(<<"a">>)>>,
                 <<<<AreaLabels, <<<<"1", "2">>, <<"0">>>>>>>>}

Found == {NoData,
          [NoData EXCEPT !["teacher_count"] = <<2>>],
          [NoData EXCEPT !["teacher_count"] = <<0>>],
          [NoData EXCEPT !["student_count"] = <<1>>, !["class_count"] = <<0>>]}

ExtractInit ==
    /\ ppc = "extract"
    /\ parse_in \in [tables : ExtractViews, regex_found : Found, scan_found : Found]
    /\ parse_out = <<>>

(***************************************************************************)
(* The entities parse_school_data_with_details goes through (lines         *)
(* 1340-1486). A match of the pattern in div#search is its name, its       *)
(* sub-region and whether locator('text="name"') finds an element. An      *)
(* element is <<name>>, its text content; None stands for a match left to  *)
(* the scripted click of lines 1519-1557. Names are full names, so the     *)
(* repair of a short text content (1458-1478) does not apply.              *)
(***************************************************************************)
RECURSIVE school_elements_of(_, _)
\* lines 1367-1387
school_elements_of(matches, district) ==
    IF matches = <<>> THEN <<>>
    ELSE (IF district # None /\ ~Contains(Head(matches).dist, district[1]) THEN <<>>
          ELSE IF Head(matches).located THEN <<<<Head(matches).name>>>>
          ELSE <<None>>)
         \o school_elements_of(Tail(matches), district)

RECURSIVE unique_schools_of(_, _)
\* lines 1451-1486: elem.text_content() raises on None and the handler goes
\* on with the next element; the keys of unique_schools in insertion order
unique_schools_of(unique, school_elements) ==
    IF school_elements = <<>> THEN unique
    ELSE LET elem == Head(school_elements)
             keep == /\ elem # None
                     /\ Has(elem[1], "guoxiao") \/ Has(elem[1], "shixiao")
                     /\ \A i \in 1..Len(unique) : unique[i] # elem[1]
         IN  unique_schools_of(IF keep THEN Append(unique, elem[1]) ELSE unique,
                               Tail(school_elements))

\* the entities the loop of lines 1492-1618 processes
processed_entities(matches, district) ==
    unique_schools_of(<<>>, school_elements_of(matches, district))

EntityMatches == [name : {<<"a", "guoxiao">>, <<"b", "guoxiao">>},
                  dist : {<<"d1">>, <<"d2">>}, located : BOOLEAN]

ElementsInit ==
    /\ ppc = "elements"
    /\ parse_in \in [matches : {<<>>} \cup {<<m>> : m \in EntityMatches}
                                   \cup {<<m, n>> : m \in EntityMatches, n \in EntityMatches},
                      district : {None, <<<<"d1">>>>}]
    /\ parse_out = <<>>

(***************************************************************************)
(* Inputs of the parsers.                                                  *)
(***************************************************************************)
NameHeader == <<"xuexiao", "mingcheng">>

StudentHeader == <<"xuesheng", "shu">>

SchoolCell == <<"a", "guoxiao">>

\* the last two: the only label in column 0; a keyword but no label
HeaderRows == {<<NameHeader, StudentHeader>>, <<StudentHeader, NameHeader>>,
               <<StudentHeader, StudentHeader>>, <<NameHeader, <<"a">>>>,
               <<<<"xuexiao">>, <<"a">>>>}

DataRows == {<<SchoolCell, <<"1">>>>, <<<<"2">>, SchoolCell>>, <<<<>>, <<" ">>>>,
             <<SchoolCell, <<"1">>, <<"2">>, <<"1", ",", "2">>>>}

PageRows == HeaderRows \cup DataRows

RowLists == {<<r>> : r \in PageRows}
            \cup {<<r, q>> : r \in PageRows, q \in PageRows}
            \cup {<<r, q, w>> : r \in PageRows, q \in PageRows, w \in PageRows}

PageTables == {<<>>} \cup {<<[grid |-> g, rows |-> rows]>> : g \in BOOLEAN, rows \in RowLists}

MatchA == [name |-> <<"a", "guoxiao", " ">>, dist |-> <<"d1">>, type |-> <<"t">>]

MatchB == [name |-> <<"b", "guoxiao">>, dist |-> <<"d2">>, type |-> <<"t">>]

MatchLists == {<<>>, <<MatchA>>, <<MatchA, MatchB>>, <<MatchB>>}

PageSearches == {<<>>} \cup {<<[spaced |-> m, unspaced |-> n]>> : m \in MatchLists, n \in MatchLists}

Pages == [search : PageSearches, tables : PageTables]

PageInit ==
    /\ ppc = "page"
    /\ parse_in \in [page : Pages, district : {<<>>, <<"d1">>}]
    /\ parse_out = <<>>

NumberChars == {"1", "2", ",", "-", "a"}

RECURSIVE TextsOfLength(_)
TextsOfLength(n) ==
    IF n = 0 THEN {<<>>}
    ELSE {Append(t, c) : t \in TextsOfLength(n - 1), c \in NumberChars}

NumberTexts == UNION {TextsOfLength(n) : n \in 0..MaxText}

NumberInit ==
    /\ ppc = "number"
    /\ parse_in \in NumberTexts
    /\ parse_out = <<>>

ParseInit ==
    /\ MergeOff
    /\ DetailIdle
    /\ BatchIdle
    /\ DbIdle
    /\ WorkerIdle
    /\ NavIdle
    /\ TasksIdle
    /\ (NumberInit \/ PageInit \/ ViewInit \/ ExtractInit \/ ElementsInit)

ParseNumber ==
    /\ ppc = "number"
    /\ parse_out' = parse_number(parse_in)
    /\ ppc' = "number_done"
    /\ UNCHANGED parse_in
    /\ UNCHANGED notParse

ParsePage ==
    /\ ppc = "page"
    /\ parse_out' = parse_school_data(parse_in.page, parse_in.district)
    /\ ppc' = "page_done"
    /\ UNCHANGED parse_in
    /\ UNCHANGED notParse

ParseView ==
    /\ ppc = "view"
    /\ parse_out' = table_semantics(parse_in)
    /\ ppc' = "view_done"
    /\ UNCHANGED parse_in
    /\ UNCHANGED notParse

ParseExtract ==
    /\ ppc = "extract"
    /\ parse_out' = extract_strategies(parse_in.tables, parse_in.regex_found,
                                       parse_in.scan_found)
    /\ ppc' = "extract_done"
    /\ UNCHANGED parse_in
    /\ UNCHANGED notParse

ParseElements ==
    /\ ppc = "elements"
    /\ parse_out' = processed_entities(parse_in.matches, parse_in.district)
    /\ ppc' = "elements_done"
    /\ UNCHANGED parse_in
    /\ UNCHANGED notParse

ParseNext ==
    \/ ParseNumber
    \/ ParsePage
    \/ ParseView
    \/ ParseExtract
    \/ ParseElements

SpecParse == ParseInit /\ [][ParseNext]_vars


(***************************************************************************)
(* Claims about the parsers, checked under SpecParse.                      *)
(***************************************************************************)
DigitsOf(text) == SelectSeq(text, keep_digits_only)

\* C15: parse_number keeps only the digits of its input and a sign that
\* leads the text: it returns the integer made of those digits (separators
\* removed), and null for the empty string and for text without digits.
C15_DigitsAndLeadingSign ==
    ppc = "number_done" =>
        parse_out =
            IF DigitsOf(parse_in) = <<>> THEN None
            ELSE IF parse_in[1] = "-" THEN <<0 - DigitsValue(DigitsOf(parse_in))>>
            ELSE <<DigitsValue(DigitsOf(parse_in))>>


\* C14: the first strategy with a non-empty result wins: whenever the
\* delimited-text strategy yields at least one record, the returned list is
\* exactly that strategy's records, whatever tables the page has; the
\* returned list differs from the delimited-text records (a table strategy
\* contributed) only when the delimited-text strategy yields nothing.
C14_FirstNonEmptyWins ==
    ppc = "page_done" =>
        LET text_records == delimited_text(parse_in.page, parse_in.district)
        IN  /\ text_records # <<>> => parse_out = text_records
            /\ parse_out # text_records => text_records = <<>>

\* both the delimited-text strategy and a table strategy have records to
\* give for the page, and the delimited-text records are what is returned
C14_Witness ==
    /\ ppc = "page_done"
    /\ delimited_text(parse_in.page, parse_in.district) # <<>>
    /\ table_strategies(parse_in.page, parse_in.district) # <<>>
    /\ parse_out = delimited_text(parse_in.page, parse_in.district)


Ran(strategy) == \E i \in 1..Len(parse_out.ran) : parse_out.ran[i] = strategy

Recovered(data) == \E f \in Fields : data[f] # None

\* C22: the strategies run in the order tables, regex, scan, and a later one
\* runs only if the earlier ones recovered no field at all, a recovered 0
\* counting as recovered: the regex strategy does not run when the table
\* strategy recovered a field, and the scan runs only when neither the table
\* strategy nor the regex strategy recovered one.
C22_LaterStrategyOnlyAfterNothing ==
    ppc = "extract_done" =>
        LET from_tables == table_semantics(parse_in.tables)
        IN  /\ parse_out.ran \in {<<"tables">>, <<"tables", "regex">>, <<"tables", "scan">>,
                                  <<"tables", "regex", "scan">>}
            /\ Ran("regex") => ~Recovered(from_tables)
            /\ Ran("scan") =>
                  /\ ~Recovered(from_tables)
                  /\ Ran("regex") /\ ~Recovered(parse_in.regex_found)

\* C25: every entity parsed from the results container (and of the
\* requested sub-region) is processed by the loop, and so gets a detail
\* extraction attempt, also when no clickable element was located for it.
C25_EveryEntityAttempted ==
    ppc = "elements_done" =>
        \A i \in 1..Len(parse_in.matches) :
            (parse_in.district = None
                \/ Contains(parse_in.matches[i].dist, parse_in.district[1])) =>
                \E j \in 1..Len(parse_out) : parse_out[j] = parse_in.matches[i].name

RECURSIVE MappedRecords(_, _, _)
\* the data rows read through the header index map, each row of at least two
\* cells that are not all empty
MappedRecords(rows, header_indices, district) ==
    IF rows = <<>> THEN <<>>
    ELSE (IF Len(Head(rows)) < 2 \/ \A j \in 1..Len(Head(rows)) : clean_text(Head(rows)[j]) = <<>>
          THEN <<>>
          ELSE header_mapped_row(cleaned_cells(Head(rows)), header_indices, district))
         \o MappedRecords(Tail(rows), header_indices, district)

\* the table strategies are what gives the records of the page, and the
\* table has a header row
HeaderRecognized ==
    /\ ppc = "page_done"
    /\ delimited_text(parse_in.page, parse_in.district) = <<>>
    /\ find_table(parse_in.page) # <<>>
    /\ header_row_of(find_table(parse_in.page)[1].rows) # 0

\* C21: whenever a header row is recognized in the table, also when its only
\* recognized label sits in column 0 or when it matches a keyword but maps
\* no label, every data row is read through the header index map, never by
\* position.
C21_PositionalOnlyWithoutHeader ==
    HeaderRecognized =>
        LET rows == find_table(parse_in.page)[1].rows
            header_row == header_row_of(rows)
        IN  parse_out = MappedRecords(SubSeq(rows, header_row + 1, Len(rows)),
                                      header_indices_of(cleaned_cells(rows[header_row])),
                                      parse_in.district)

\* the tables of the view that name the count of `who` in persons in their
\* first row and have a number in the first cell of their third row
PersonTables(tables, who) ==
    {i \in 1..Len(tables) :
        /\ Len(tables[i]) >= 3
        /\ names_in_persons(Join(stripped_cells(tables[i][1])), who)
        /\ Len(tables[i][3]) >= 1
        /\ parse_number(strip(tables[i][3][1])) # None}

\* the tables whose first header cell names the class count and that have a
\* number in the first cell of their second row
ClassTables(tables) ==
    {i \in 1..Len(tables) :
        /\ Len(tables[i]) >= 2
        /\ names_class_count(tables[i][1])
        /\ Len(tables[i][2]) >= 1
        /\ parse_number(strip(tables[i][2][1])) # None}

\* C17: the table strategy reads each field at its fixed offset: the student
\* (teacher) count is the number in the first cell of the third row of the
\* table whose header row names it in persons, the class count the number in
\* the first cell of the second row of the table whose first header cell
\* names it (the last such table of the view when there are several), and a
\* field without such a table is left null.
C17_FixedOffsets ==
    ppc = "view_done" =>
        LET students == PersonTables(parse_in, "xuesheng")
            teachers == PersonTables(parse_in, "jiaoshi")
            classes == ClassTables(parse_in)
        IN  /\ parse_out["student_count"] =
                  IF students = {} THEN None
                  ELSE parse_number(strip(parse_in[SetMax(students)][3][1]))
            /\ parse_out["teacher_count"] =
                  IF teachers = {} THEN None
                  ELSE parse_number(strip(parse_in[SetMax(teachers)][3][1]))
            /\ parse_out["class_count"] =
                  IF classes = {} THEN None
                  ELSE parse_number(strip(parse_in[SetMax(classes)][2][1]))

\* a table with header 學生數（人） and third-row first cell "312" yields
\* student count 312
C17_Witness ==
    /\ ppc = "view_done"
    /\ Len(parse_in) = 1
    /\ parse_in[1][1] = <<StudentPersons>>
    /\ Len(parse_in[1]) = 3
    /\ parse_in[1][2] = <<<<"a">>>>
    /\ parse_in[1][3] = <<<<"3", "1", "2">>>>
    /\ parse_out["student_count"] = <<312>>


(***************************************************************************)
(* Part 5: the schools table (src/database.py). A row is the key columns   *)
(* 鄉鎮市區 (district) and 學校名稱 (name), both NOT NULL and together     *)
(* UNIQUE, and two of the value columns: 學生數 (student_count), which     *)
(* stands for the five numeric columns, and 學校類型 (type). A column is   *)
(* <<>> (NULL) or <<value>>. The model follows the SQLite statements, the  *)
(* connection used when no DATABASE_URL is set.                            *)
(***************************************************************************)
DbKeys == {<<<<"A">>, <<"x">>>>, <<<<"B">>, <<"x">>>>, <<<<"A">>, <<"y">>>>,
           <<None, <<"x">>>>, <<<<"A">>, None>>}

\* the value columns of a record: a count and no type, or a type and no count
DbValues == {<<<<1>>, None>>, <<None, <<"t">>>>}

DbRecords == {[district |-> k[1], name |-> k[2], student_count |-> v[1], type |-> v[2]] :
                 k \in DbKeys, v \in DbValues}

DbLists == {<<>>} \cup {<<r>> : r \in DbRecords} \cup {<<r, q>> : r \in DbRecords, q \in DbRecords}

\* "鄉鎮市區" TEXT NOT NULL, "學校名稱" TEXT NOT NULL
violates_not_null(school) == school.district = None \/ school.name = None

conflict_on_name(row, school) == row.name = school.name

\* ON CONFLICT ("鄉鎮市區", "學校名稱")
conflict(row, school) == row.district = school.district /\ row.name = school.name

upsert_keep_non_null(rows, school) ==
    IF \E i \in 1..Len(rows) : conflict(rows[i], school)
    THEN [i \in 1..Len(rows) |->
            IF conflict(rows[i], school)
            THEN [rows[i] EXCEPT
                    !.student_count = Or(school.student_count, rows[i].student_count),
                    !.type = Or(school.type, rows[i].type)]
            ELSE rows[i]]
    ELSE Append(rows, school)

\* the statement of _upsert_sql on a record that passes the constraints:
\* DO UPDATE SET sets every value column to EXCLUDED's
upsert(rows, school) ==
    IF \E i \in 1..Len(rows) : conflict(rows[i], school)
    THEN [i \in 1..Len(rows) |->
            IF conflict(rows[i], school)
            THEN [rows[i] EXCEPT !.student_count = school.student_count,
                                 !.type = school.type]
            ELSE rows[i]]
    ELSE Append(rows, school)

RECURSIVE executed(_, _)
\* the loop of save_schools: a record whose statement raises is skipped
executed(rows, list) ==
    IF list = <<>> THEN rows
    ELSE executed(IF violates_not_null(Head(list)) THEN rows ELSE upsert(rows, Head(list)),
                  Tail(list))

\* saved_count of save_schools after the loop
saved_count(list) == Cardinality({i \in 1..Len(list) : ~violates_not_null(list[i])})

\* the table after init_database
DbInit ==
    /\ MergeOff
    /\ DetailIdle
    /\ BatchIdle
    /\ ParseIdle
    /\ WorkerIdle
    /\ NavIdle
    /\ TasksIdle
    /\ db_rows = <<>>
    /\ db_op = "none"
    /\ db_call = <<>>
    /\ db_before = <<>>
    /\ db_stored = 0
    /\ db_returned = 0

\* save_school on {}: `if not school: return False`
save_school_empty ==
    /\ db_op # "off"
    /\ db_op' = "save_school"
    /\ db_call' = <<>>
    /\ db_before' = db_rows
    /\ db_stored' = 0
    /\ db_returned' = 0
    /\ UNCHANGED db_rows
    /\ UNCHANGED notDb

\* save_school: execute and commit, or rollback when either raises (`raises`
\* is a failure of the connection; a constraint violation raises as well)
save_school(school, raises) ==
    LET ok == ~raises /\ ~violates_not_null(school)
    IN  /\ db_op # "off"
        /\ db_op' = "save_school"
        /\ db_call' = <<school>>
        /\ db_before' = db_rows
        /\ db_rows' = IF ok THEN upsert(db_rows, school) ELSE db_rows
        /\ db_stored' = IF ok THEN 1 ELSE 0
        /\ db_returned' = IF ok THEN 1 ELSE 0
        /\ UNCHANGED notDb

\* save_schools: the loop, then commit; when commit raises the transaction
\* is rolled back and saved_count is returned all the same
save_schools(list, commit_raises) ==
    /\ db_op # "off"
    /\ db_op' = "save_schools"
    /\ db_call' = list
    /\ db_before' = db_rows
    /\ IF list = <<>>
       THEN /\ db_stored' = 0
            /\ db_returned' = 0
            /\ UNCHANGED db_rows
       ELSE /\ db_rows' = IF commit_raises THEN db_rows ELSE executed(db_rows, list)
            /\ db_stored' = IF commit_raises THEN 0 ELSE saved_count(list)
            /\ db_returned' = saved_count(list)
    /\ UNCHANGED notDb

DbNext ==
    \/ save_school_empty
    \/ \E school \in DbRecords, raises \in BOOLEAN : save_school(school, raises)
    \/ \E list \in DbLists, commit_raises \in BOOLEAN : save_schools(list, commit_raises)

SpecDb == DbInit /\ [][DbNext]_vars

(***************************************************************************)
(* Claims about the storage layer.                                         *)
(***************************************************************************)
KeyOf(r) == <<r.district, r.name>>

PairwiseDistinctKeys(list) ==
    \A i, j \in 1..Len(list) : i # j => KeyOf(list[i]) # KeyOf(list[j])

OneRowPerKey == PairwiseDistinctKeys(db_rows)

Saved == db_op \in {"save_school", "save_schools"}

\* C18: the table holds at most one row per (sub-region, name) pair, and a
\* call that saves records with pairwise distinct keys increases the row
\* count by exactly the number of records it saved.
C18_UpsertRowCount ==
    /\ OneRowPerKey
    /\ (Saved /\ PairwiseDistinctKeys(db_call)) =>
          Len(db_rows) = Len(db_before) + db_stored

\* no record of the call has the key of a row the table had before the call
NewKeys ==
    \A i \in 1..Len(db_call), j \in 1..Len(db_before) :
        KeyOf(db_call[i]) # KeyOf(db_before[j])

\* C18, amended: the table holds at most one row per (sub-region, name)
\* pair, and a call that saves records with pairwise distinct keys, none of
\* which is the key of a row already in the table, increases the row count
\* by exactly the number of records it saved.
C18_UpsertRowCountOfNewKeys ==
    /\ OneRowPerKey
    /\ (Saved /\ PairwiseDistinctKeys(db_call) /\ NewKeys) =>
          Len(db_rows) = Len(db_before) + db_stored

\* two records of distinct new keys are saved into a table that has a row
C18_Witness ==
    /\ db_op = "save_schools"
    /\ Len(db_call) = 2
    /\ PairwiseDistinctKeys(db_call)
    /\ NewKeys
    /\ Len(db_before) = 1
    /\ db_stored = 2

\* the records of the last call whose statement was executed and committed
StoredRecords ==
    IF Saved /\ db_stored > 0
    THEN {i \in 1..Len(db_call) : ~violates_not_null(db_call[i])}
    ELSE {}

\* no later record of the call was stored under the key of record i
LastOfKey(i) == \A j \in StoredRecords : j > i => KeyOf(db_call[j]) # KeyOf(db_call[i])

\* C30: after a call that stored record r (for a list with several records
\* of one key, r is the last of them), the row of r's key holds exactly the
\* value columns of r, NULL where r has None even if a value was stored
\* before, and every row whose key is the key of no stored record of the
\* call is as it was before the call.
C30_LastWriteWins ==
    /\ \A i \in StoredRecords :
          LastOfKey(i) => \E k \in 1..Len(db_rows) : db_rows[k] = db_call[i]
    /\ StoredRecords # {} =>
          \A k \in 1..Len(db_before) :
              (\A i \in StoredRecords : KeyOf(db_call[i]) # KeyOf(db_before[k]))
                  => (k <= Len(db_rows) /\ db_rows[k] = db_before[k])

\* a record with no count is stored over a row that had a count, while the
\* table has a row of another key
C30_Witness ==
    /\ StoredRecords # {}
    /\ \E i \in StoredRecords, k \in 1..Len(db_before) :
          /\ KeyOf(db_call[i]) = KeyOf(db_before[k])
          /\ LastOfKey(i)
          /\ db_before[k].student_count # None
          /\ db_call[i].student_count = None
    /\ \E k \in 1..Len(db_before) :
          \A i \in StoredRecords : KeyOf(db_call[i]) # KeyOf(db_before[k])
    /\ Len(db_rows) = 3


(***************************************************************************)
(* Part 6: the worker processes of a WSGI server, each of which imports    *)
(* src/app.py and so runs init_scheduler and the start-up code (lines      *)
(* 382-390). The processes share the lock file; scheduler, its running     *)
(* flag and _scheduler_lock_file are per process. The model follows the    *)
(* branch of os.name other than 'nt'. A lock taken with flock belongs to   *)
(* the file a process has open: a file removed from the lock path stays    *)
(* open, and lockable, for the processes that opened it before.            *)
(***************************************************************************)
Workers == 1..MaxWorkers

WorkerInit ==
    /\ MergeOff
    /\ DetailIdle
    /\ BatchIdle
    /\ ParseIdle
    /\ DbIdle
    /\ NavIdle
    /\ TasksIdle
    /\ writable \in BOOLEAN
    /\ has_fcntl \in BOOLEAN
    /\ lock_inode = 0
    /\ wpc = [p \in Workers |-> "import"]
    /\ fd = [p \in Workers |-> 0]
    /\ lock_held = {}
    /\ running = [p \in Workers |-> FALSE]
    /\ cleanup = [p \in Workers |-> FALSE]
    /\ startup_checked = [p \in Workers |-> FALSE]

\* line 275: open(path, 'w') creates the file when there is none
OpenLockFile(p) ==
    /\ wpc[p] = "import"
    /\ writable
    /\ lock_inode' = IF lock_inode = 0 THEN p ELSE lock_inode
    /\ fd' = [fd EXCEPT ![p] = lock_inode']
    /\ wpc' = [wpc EXCEPT ![p] = "opened"]
    /\ UNCHANGED <<writable, has_fcntl, lock_held, running, cleanup, startup_checked>>
    /\ UNCHANGED notWorker

\* line 275 raises: the handler of lines 352-365 starts the scheduler of
\* this process unless it runs already, and init_scheduler returns True
OpenRaises(p) ==
    /\ wpc[p] = "import"
    /\ ~writable
    /\ running' = [running EXCEPT ![p] = TRUE]
    /\ wpc' = [wpc EXCEPT ![p] = "initialized"]
    /\ UNCHANGED <<writable, has_fcntl, lock_inode, fd, lock_held, cleanup, startup_checked>>
    /\ UNCHANGED notWorker

\* whether a process other than p holds the lock of the file p has open
locked_by_other(p) == \E q \in lock_held : q # p /\ fd[q] = fd[p]

\* lines 300-301: flock(LOCK_EX | LOCK_NB) succeeds
LockTaken(p) ==
    /\ wpc[p] = "opened"
    /\ has_fcntl
    /\ ~locked_by_other(p)
    /\ lock_held' = lock_held \cup {p}
    /\ wpc' = [wpc EXCEPT ![p] = "locked"]
    /\ UNCHANGED <<writable, has_fcntl, lock_inode, fd, running, cleanup, startup_checked>>
    /\ UNCHANGED notWorker

\* lines 302-307: flock raises, the file is closed, init_scheduler returns False
LockRefused(p) ==
    /\ wpc[p] = "opened"
    /\ has_fcntl
    /\ locked_by_other(p)
    /\ fd' = [fd EXCEPT ![p] = 0]
    /\ wpc' = [wpc EXCEPT ![p] = "skipped"]
    /\ UNCHANGED <<writable, has_fcntl, lock_inode, lock_held, running, cleanup,
                   startup_checked>>
    /\ UNCHANGED notWorker

\* lines 308-315: no fcntl; the file is closed, and init_scheduler returns
\* False when the lock file exists, else opens it again and goes on
NoLockModule(p) ==
    /\ wpc[p] = "opened"
    /\ ~has_fcntl
    /\ IF lock_inode # 0
       THEN /\ fd' = [fd EXCEPT ![p] = 0]
            /\ wpc' = [wpc EXCEPT ![p] = "skipped"]
            /\ UNCHANGED lock_inode
       ELSE /\ lock_inode' = p
            /\ fd' = [fd EXCEPT ![p] = p]
            /\ wpc' = [wpc EXCEPT ![p] = "locked"]
    /\ UNCHANGED <<writable, has_fcntl, lock_held, running, cleanup, startup_checked>>
    /\ UNCHANGED notWorker

\* lines 318-350: scheduler.start(), cleanup registered, return True
StartScheduler(p) ==
    /\ wpc[p] = "locked"
    /\ running' = [running EXCEPT ![p] = TRUE]
    /\ cleanup' = [cleanup EXCEPT ![p] = TRUE]
    /\ wpc' = [wpc EXCEPT ![p] = "initialized"]
    /\ UNCHANGED <<writable, has_fcntl, lock_inode, fd, lock_held, startup_checked>>
    /\ UNCHANGED notWorker

\* lines 387-388: scheduler_initialized, so check_and_scrape_on_startup()
StartupCheck(p) ==
    /\ wpc[p] = "initialized"
    /\ startup_checked' = [startup_checked EXCEPT ![p] = TRUE]
    /\ wpc' = [wpc EXCEPT ![p] = "serving"]
    /\ UNCHANGED <<writable, has_fcntl, lock_inode, fd, lock_held, running, cleanup>>
    /\ UNCHANGED notWorker

\* lines 389-390: not initialized, the start-up check is skipped
SkipStartupCheck(p) ==
    /\ wpc[p] = "skipped"
    /\ wpc' = [wpc EXCEPT ![p] = "serving"]
    /\ UNCHANGED <<writable, has_fcntl, lock_inode, fd, lock_held, running, cleanup,
                   startup_checked>>
    /\ UNCHANGED notWorker

\* the process exits: the atexit handlers shut the scheduler down; cleanup
\* (lines 322-347) also unlocks and closes the file and removes the lock path
WorkerExits(p) ==
    /\ wpc[p] = "serving"
    /\ running' = [running EXCEPT ![p] = FALSE]
    /\ IF cleanup[p]
       THEN /\ lock_held' = lock_held \ {p}
            /\ fd' = [fd EXCEPT ![p] = 0]
            /\ lock_inode' = 0
       ELSE UNCHANGED <<lock_held, fd, lock_inode>>
    /\ wpc' = [wpc EXCEPT ![p] = "exited"]
    /\ UNCHANGED <<writable, has_fcntl, cleanup, startup_checked>>
    /\ UNCHANGED notWorker

WorkerNext ==
    \E p \in Workers :
        \/ OpenLockFile(p)
        \/ OpenRaises(p)
        \/ LockTaken(p)
        \/ LockRefused(p)
        \/ NoLockModule(p)
        \/ StartScheduler(p)
        \/ StartupCheck(p)
        \/ SkipStartupCheck(p)
        \/ WorkerExits(p)

SpecWorker == WorkerInit /\ [][WorkerNext]_vars

(***************************************************************************)
(* Claims about the worker processes.                                      *)
(***************************************************************************)
\* C19: at any time at most one process has its scheduler running, and at
\* most one live process has run the start-up scrape check, also when the
\* lock file cannot be opened or locked.
C19_SingleScheduler ==
    /\ Cardinality({p \in Workers : running[p]}) <= 1
    /\ Cardinality({p \in Workers : startup_checked[p] /\ wpc[p] # "exited"}) <= 1

(***************************************************************************)
(* Part 7: the navigators (query_schools, query_all_schools_in_county).    *)
(* A step of a navigation has one of these outcomes:                       *)
(*   "direct"         the direct action took effect;                       *)
(*   "fallback"       the direct action failed, a fallback took effect;    *)
(*   "no_effect"      the direct action failed, the fallbacks had no       *)
(*                    effect or raised, and the code goes on;              *)
(*   "ignored"        the direct action failed, no fallback is tried and   *)
(*                    the code goes on;                                    *)
(*   "raises"         the fallback raised to the handler of the navigator; *)
(*   "raises_unaided" the direct action raised to the handler of the       *)
(*                    navigator, no fallback is tried.                     *)
(***************************************************************************)
NavDistricts == {"d1", "d2"}

\* what get_school_detail can recover for one entity
NavVecs ==
    {NoData, OneData, [NoData EXCEPT !["class_count"] = <<0>>],
     [NoData EXCEPT !["land_area"] = <<5>>]}

\* the result pages: the entities of sub-regions "d1" and "d2"
ShownLists ==
    {<<>>, <<[district |-> "d1", name |-> "a"]>>, <<[district |-> "d2", name |-> "b"]>>,
     <<[district |-> "d1", name |-> "a"], [district |-> "d2", name |-> "b"]>>}

NavInit ==
    /\ MergeOff
    /\ DetailIdle
    /\ BatchIdle
    /\ ParseIdle
    /\ DbIdle
    /\ WorkerIdle
    /\ TasksIdle
    /\ npc = "goto"
    /\ nav_entry \in {"query_schools", "county"}
    /\ navigator = nav_entry
    /\ nav_district \in (IF nav_entry = "county" THEN {None} ELSE {<<d>> : d \in NavDistricts})
    /\ succeeded = {}
    /\ skipped = {}
    /\ unaided = {}
    /\ submitted = FALSE
    /\ shown = <<>>
    /\ nav_details = <<>>
    /\ nav_result = <<>>

\* the effect of outcome o of step `step`; `next` is the step after it.
\* An exception that reaches `except Exception` of the navigator
\* (lines 292-297, 555-560) makes it return the empty list `schools`.
StepOutcome(step, o, next) ==
    /\ succeeded' = (IF o \in {"direct", "fallback"} THEN succeeded \cup {step} ELSE succeeded)
    /\ skipped' = (IF o \in {"no_effect", "ignored"} THEN skipped \cup {step} ELSE skipped)
    /\ unaided' = (IF o \in {"ignored", "raises_unaided"} THEN unaided \cup {step} ELSE unaided)
    /\ npc' = (IF o \in {"raises", "raises_unaided"} THEN "returned" ELSE next)

\* lines 133-137, 317-322: the entry page is loaded, or goto raises
GotoPage ==
    /\ npc = "goto"
    /\ \E o \in {"direct", "raises"} :
        npc' = (IF o = "raises" THEN "returned" ELSE "menu")
    /\ UNCHANGED <<navigator, nav_entry, nav_district, succeeded, skipped, unaided,
                   submitted, shown, nav_details, nav_result>>
    /\ UNCHANGED notNav

\* lines 139-151, 324-336: the region menu button is clicked; when the click
\* raises, a script clicks the button if the document has it
ClickMenu ==
    /\ npc = "menu"
    /\ \E o \in {"direct", "fallback", "no_effect", "raises"} :
        StepOutcome("menu", o, "city_code")
    /\ UNCHANGED <<navigator, nav_entry, nav_district, submitted, shown, nav_details,
                   nav_result>>
    /\ UNCHANGED notNav

\* lines 153-157, 338-342: get_city_code; None makes the navigator return
\* the empty list
GetCityCode ==
    /\ npc = "city_code"
    /\ \E found \in BOOLEAN :
        npc' = (IF found THEN "city" ELSE "returned")
    /\ UNCHANGED <<navigator, nav_entry, nav_district, succeeded, skipped, unaided,
                   submitted, shown, nav_details, nav_result>>
    /\ UNCHANGED notNav

\* lines 159-185: the county-wide navigator selects the region and falls
\* back to a script; lines 344-354: query_schools selects it outside any
\* try block
SelectCity ==
    /\ npc = "city"
    /\ \E o \in (IF navigator = "county" THEN {"direct", "fallback", "no_effect", "raises"}
                 ELSE {"direct", "raises_unaided"}) :
        StepOutcome("city", o, IF navigator = "county" THEN "district" ELSE "populated")
    /\ UNCHANGED <<navigator, nav_entry, nav_district, submitted, shown, nav_details,
                   nav_result>>
    /\ UNCHANGED notNav

\* lines 359-366: query_schools waits for the sub-region list to have
\* options; a timeout is printed and nothing else
WaitPopulated ==
    /\ npc = "populated"
    /\ navigator = "query_schools"
    /\ \E o \in {"direct", "ignored"} :
        StepOutcome("populated", o, "district_code")
    /\ UNCHANGED <<navigator, nav_entry, nav_district, submitted, shown, nav_details,
                   nav_result>>
    /\ UNCHANGED notNav

\* lines 368-373: get_district_code; None makes query_schools return what
\* query_all_schools_in_county(county) returns, which starts at line 125
GetDistrictCode ==
    /\ npc = "district_code"
    /\ navigator = "query_schools"
    /\ \E found \in BOOLEAN :
        IF found
        THEN /\ npc' = "district"
             /\ UNCHANGED <<navigator, succeeded, skipped, unaided>>
        ELSE /\ npc' = "goto"
             /\ navigator' = "county"
             /\ succeeded' = {}
             /\ skipped' = {}
             /\ unaided' = {}
    /\ UNCHANGED <<nav_entry, nav_district, submitted, shown, nav_details, nav_result>>
    /\ UNCHANGED notNav

\* lines 377-396: query_schools selects the sub-region and falls back to a
\* script; lines 190-219: the county-wide navigator selects option '0',
\* then the first option, then by script, and swallows every exception
SelectDistrict ==
    /\ npc = "district"
    /\ \E o \in (IF navigator = "county" THEN {"direct", "fallback", "no_effect"}
                 ELSE {"direct", "fallback", "no_effect", "raises"}) :
        StepOutcome("district", o, "category")
    /\ UNCHANGED <<navigator, nav_entry, nav_district, submitted, shown, nav_details,
                   nav_result>>
    /\ UNCHANGED notNav

\* lines 221-264, 398-428: the category is set by the radio button, then by
\* the select element, then by script; every exception is swallowed
SelectCategory ==
    /\ npc = "category"
    /\ \E o \in {"direct", "fallback", "no_effect"} :
        StepOutcome("category", o, "submit")
    /\ UNCHANGED <<navigator, nav_entry, nav_district, submitted, shown, nav_details,
                   nav_result>>
    /\ UNCHANGED notNav

\* lines 266-271, 430-438: the submit button is clicked; when the click
\* raises, BtnClick2() is evaluated
Submit ==
    /\ npc = "submit"
    /\ \E o \in {"direct", "fallback", "raises"} :
        /\ submitted' = (o # "raises")
        /\ npc' = (IF o = "raises" THEN "returned" ELSE "results")
    /\ UNCHANGED <<navigator, nav_entry, nav_district, succeeded, skipped, unaided,
                   shown, nav_details, nav_result>>
    /\ UNCHANGED notNav

\* lines 273-275, 441-444: the navigator waits for the result page
WaitResults ==
    /\ npc = "results"
    /\ \E o \in {"direct", "raises"} :
        IF o = "raises"
        THEN npc' = "returned" /\ shown' = shown
        ELSE npc' = "details" /\ shown' \in ShownLists
    /\ UNCHANGED <<navigator, nav_entry, nav_district, succeeded, skipped, unaided,
                   submitted, nav_details, nav_result>>
    /\ UNCHANGED notNav

\* the district argument the parsers are called with: line 279 and
\* parse_school_data_with_district pass None, lines 521 and 530 pass district
parser_district == IF navigator = "county" THEN None ELSE nav_district

\* lines 1660-1668, 1370-1372: the entities the parsers keep
RECURSIVE kept_entities(_, _)
kept_entities(entities, district) ==
    IF entities = <<>> THEN <<>>
    ELSE IF district # None /\ district[1] # Head(entities).district
         THEN kept_entities(Tail(entities), district)
         ELSE <<Head(entities)>> \o kept_entities(Tail(entities), district)

\* lines 1640-1684: the records of the basic parse, without numeric values
basic_records(entities, district) ==
    LET kept == kept_entities(entities, district)
    IN [i \in 1..Len(kept) |->
           [district |-> kept[i].district, name |-> kept[i].name, num |-> NoData]]

\* lines 279, 521: parse_school_data_with_details gives one record per kept
\* entity, with what get_school_detail recovered for it
ParseDetails ==
    /\ npc = "details"
    /\ LET basic == basic_records(shown, parser_district)
       IN \E recovered \in [1..Len(basic) -> NavVecs] :
           nav_details' = [i \in 1..Len(basic) |-> [basic[i] EXCEPT !.num = recovered[i]]]
    /\ npc' = "return"
    /\ UNCHANGED <<navigator, nav_entry, nav_district, succeeded, skipped, unaided,
                   submitted, shown, nav_result>>
    /\ UNCHANGED notNav

\* lines 282, 524: the list of the detail parse is returned when it is not
\* empty and some record has a truthy class, student or teacher count
has_detail_counts(list) ==
    /\ list # <<>>
    /\ \E i \in 1..Len(list) :
        \/ Truthy(list[i].num["class_count"])
        \/ Truthy(list[i].num["student_count"])
        \/ Truthy(list[i].num["teacher_count"])

\* lines 281-290, 523-531: otherwise the list of the basic parse replaces it
returned_records(details, entities, district) ==
    IF has_detail_counts(details) THEN details ELSE basic_records(entities, district)

ReturnRecords ==
    /\ npc = "return"
    /\ nav_result' = returned_records(nav_details, shown, parser_district)
    /\ npc' = "returned"
    /\ UNCHANGED <<navigator, nav_entry, nav_district, succeeded, skipped, unaided,
                   submitted, shown, nav_details>>
    /\ UNCHANGED notNav

NavNext ==
    \/ GotoPage
    \/ ClickMenu
    \/ GetCityCode
    \/ SelectCity
    \/ WaitPopulated
    \/ GetDistrictCode
    \/ SelectDistrict
    \/ SelectCategory
    \/ Submit
    \/ WaitResults
    \/ ParseDetails
    \/ ReturnRecords

SpecNav == NavInit /\ [][NavNext]_vars

(***************************************************************************)
(* Claims about the navigators.                                            *)
(***************************************************************************)
\* the steps before the submit action in the navigator that runs
StepsBeforeSubmit ==
    IF navigator = "county" THEN {"menu", "city", "district", "category"}
    ELSE {"menu", "city", "populated", "district", "category"}

\* C24: in both navigators the submit action is issued only after every
\* earlier step (region menu opened, region selected, sub-region list
\* populated, sub-region or all selected, category selected) took effect, no
\* step fails without a fallback being tried, and no step that failed with
\* its fallback is passed over.
C24_SubmitAfterEveryStep ==
    /\ submitted => StepsBeforeSubmit \subseteq succeeded
    /\ unaided = {}
    /\ skipped = {}

\* C26: every record query_schools(county, district) returns is of the
\* requested sub-region, also when the option of the sub-region was not
\* found.
C26_OnlyRequestedSubRegion ==
    (npc = "returned" /\ nav_entry = "query_schools")
        => \A i \in 1..Len(nav_result) : nav_result[i].district = nav_district[1]

\* C27: every numeric value the detail parse recovered for an entity is in
\* the record of that entity in the list the navigator returns.
C27_RecoveredValuesReturned ==
    (npc = "returned" /\ nav_details # <<>>)
        => \A i \in 1..Len(nav_details) : \A f \in Fields :
               nav_details[i].num[f] # None
                   => \E j \in 1..Len(nav_result) :
                          /\ nav_result[j].name = nav_details[i].name
                          /\ nav_result[j].num[f] = nav_details[i].num[f]

(***************************************************************************)
(* Part 8: the scrape tasks of one process (src/app.py). Thread 0 is the   *)
(* thread that imports the application, thread 1 the executor of the       *)
(* scheduler, the other threads are those refresh_data starts.             *)
(***************************************************************************)
MaxRefresh == 3

ImportThread == 0

JobThread == 1

RefreshThreads == 2..(MaxRefresh + 1)

Threads == {ImportThread, JobThread} \cup RefreshThreads

\* the threads inside run_scrape_task
Executing == {t \in Threads : task[t] # "idle"}

TasksInit ==
    /\ MergeOff
    /\ DetailIdle
    /\ BatchIdle
    /\ ParseIdle
    /\ DbIdle
    /\ WorkerIdle
    /\ NavIdle
    /\ tpc = "import"
    /\ task = [t \in Threads |-> "idle"]
    /\ job_pending = FALSE

\* lines 96-106: check_and_scrape_on_startup calls run_scrape_task in the
\* importing thread when should_scrape is true
ImportRunsTask ==
    /\ tpc = "import"
    /\ tpc' = "startup"
    /\ task' = [task EXCEPT ![ImportThread] = "scrape"]
    /\ UNCHANGED job_pending
    /\ UNCHANGED notTasks

\* lines 107-111 and 66-86: no task is run, or the task has ended, then
\* schedule_next_scrape adds the job; the requests are served after that
ImportSchedules ==
    /\ tpc \in {"import", "startup"}
    /\ task[ImportThread] = "idle"
    /\ tpc' = "serving"
    /\ job_pending' = TRUE
    /\ UNCHANGED task
    /\ UNCHANGED notTasks

\* line 44: asyncio.run(scrape_schools()) returns or raises
ThreadScrapes(t) ==
    /\ task[t] = "scrape"
    /\ \E raises \in BOOLEAN :
        task' = [task EXCEPT ![t] = IF raises THEN "log" ELSE "save"]
    /\ UNCHANGED <<tpc, job_pending>>
    /\ UNCHANGED notTasks

\* line 47: db.save_schools(schools)
ThreadSaves(t) ==
    /\ task[t] = "save"
    /\ task' = [task EXCEPT ![t] = "log"]
    /\ UNCHANGED <<tpc, job_pending>>
    /\ UNCHANGED notTasks

\* lines 54, 63: db.log_scrape, then run_scrape_task returns
ThreadLogs(t) ==
    /\ task[t] = "log"
    /\ task' = [task EXCEPT ![t] = "idle"]
    /\ UNCHANGED <<tpc, job_pending>>
    /\ UNCHANGED notTasks

\* lines 80-86: the scheduler runs job 'scrape_job' at its run date, 180
\* days after the last add_job; the tasks started before have ended by then
ExecutorRunsJob ==
    /\ tpc = "serving"
    /\ job_pending
    /\ Executing = {}
    /\ task' = [task EXCEPT ![JobThread] = "scrape"]
    /\ job_pending' = FALSE
    /\ UNCHANGED tpc
    /\ UNCHANGED notTasks

\* lines 235-257: refresh_data starts a thread that runs run_scrape_task,
\* whatever the other threads do, and calls schedule_next_scrape
RefreshStartsThread ==
    /\ tpc = "serving"
    /\ \E t \in RefreshThreads :
        /\ task[t] = "idle"
        /\ \A u \in RefreshThreads : task[u] = "idle" => t <= u
        /\ task' = [task EXCEPT ![t] = "scrape"]
    /\ job_pending' = TRUE
    /\ UNCHANGED tpc
    /\ UNCHANGED notTasks

TasksNext ==
    \/ ImportRunsTask
    \/ ImportSchedules
    \/ ExecutorRunsJob
    \/ RefreshStartsThread
    \/ \E t \in Threads :
        \/ ThreadScrapes(t)
        \/ ThreadSaves(t)
        \/ ThreadLogs(t)

SpecTasks == TasksInit /\ [][TasksNext]_vars

(***************************************************************************)
(* Claims about the scrape tasks.                                          *)
(***************************************************************************)
\* C28: at any time at most one thread of the process is inside
\* run_scrape_task, whatever the order of refresh requests and job firings.
C28_OneTaskAtATime == Cardinality(Executing) <= 1
====
